---- MODULE Spec2Model ----
(***************************************************************************)
(* Shadow object tracking of the two Vulkan layers of this repository:     *)
(* the slow-device simulator (src/layersvt/slow_device_simulator.cpp) and  *)
(* the memory tracker (src/unnamed/part_001, earlier revision part_000).   *)
(* The two layers share the registry code; they differ in that the         *)
(* simulator tracks a device's objects only when the device's              *)
(* layer_enabled flag is set, scales heaps by memory_percent, gates        *)
(* AllocateMemory on a budget and delays fences, while the memory tracker  *)
(* tracks unconditionally.  The variable "layer" says which one runs.      *)
(*                                                                         *)
(* The application and the driver (the down-chain) are the environment:    *)
(* every action is one intercepted entry point, called with handles the    *)
(* driver has handed out, and with the down-chain's result as an input.    *)
(***************************************************************************)
EXTENDS Integers, Sequences, FiniteSets, TLC

VARIABLES
    layer,              \* "simulator" or "memory_tracker"
    g_instance_map,     \* VkInstance       -> InstanceMapStruct
    g_phys_device_map,  \* VkPhysicalDevice -> PhysDeviceMapStruct
    g_device_map,       \* VkDevice         -> DeviceMapStruct
    g_buffer_map,       \* VkBuffer         -> BufferMapStruct
    g_image_map,        \* VkImage          -> ImageMapStruct
    g_memory_map,       \* VkDeviceMemory   -> MemoryMapStruct
    g_fence_map,        \* VkFence          -> FenceMapStruct (simulator)
    g_ext_mem_fd_map,   \* fd               -> ExternalMemFdMapStruct
    driver,             \* the objects that are live in the down-chain
    now,                \* the clock (high_resolution_clock::now), in ms
    ret,                \* what the last call returned and what it sent down-chain
    hist,               \* per fence, what the application did with it (history only)
    threads,            \* per application thread, the call it is inside, taken in steps
    mutex               \* per std::mutex of the layers, the thread that holds it (0: none)

vars == <<layer, g_instance_map, g_phys_device_map, g_device_map, g_buffer_map,
          g_image_map, g_memory_map, g_fence_map, g_ext_mem_fd_map, driver, now, ret, hist,
          threads, mutex>>

(***************************************************************************)
(* Bounds of the model.                                                    *)
(***************************************************************************)
MaxInstances == 2
MaxDevices == 2
MaxBuffers == 2
MaxImages == 1
MaxMemories == 2
MaxFences == 2
MaxFds == 1
MaxBatch == 2
MaxTime == 3
MaxElapsed == 4
MaxPolls == 3
MaxCapacity == 3
MaxTools == 2

VK_NULL_HANDLE == 0

InstanceHandles == 1..MaxInstances
PhysHandles == {1}
DeviceHandles == 1..MaxDevices
BufferHandles == 1..MaxBuffers
ImageHandles == 1..MaxImages
MemoryHandles == 1..MaxMemories
FenceHandles == 1..MaxFences
FdHandles == 1..MaxFds

Layers == {"simulator", "memory_tracker"}
DelayTypes == {"FENCE_DELAY_NONE", "FENCE_DELAY_MS_FROM_TRIGGER",
               "FENCE_DELAY_MS_FROM_FIRST_QUERY", "FENCE_DELAY_NUM_FAIL_WAITS"}
CreateResults == {"VK_SUCCESS", "VK_ERROR_OUT_OF_HOST_MEMORY"}
BindResults == {"VK_SUCCESS", "VK_ERROR_OUT_OF_DEVICE_MEMORY"}

\* The adapter of the down-chain: two memory types on two heaps.
DrvTypeHeap == [t \in 0..1 |-> t]
DrvHeapSize == [h \in 0..1 |-> IF h = 0 THEN 1000 ELSE 600]
DrvHeapUsage == [h \in 0..1 |-> 100]
DrvApiMinor == [p \in PhysHandles |-> 3]
TypeIndexes == DOMAIN DrvTypeHeap
HeapIndexes == DOMAIN DrvHeapSize
\* What the application asks for.
AllocSizes == {200, 400}
Offsets == {0, 64}
\* heapBudget as the down-chain fills it in: 0 when it leaves the structure alone.
DrvBudgets == {0, 900}
MEM_BUDGET == "VK_EXT_memory_budget"
SYNC2 == "VK_KHR_synchronization2"
PHYS_DEV_PROPS2 == "VK_KHR_get_physical_device_properties2"
SWAPCHAIN_MAINT1 == "VK_EXT_swapchain_maintenance1"
\* The device extensions the adapter of the down-chain supports.
DrvExtensions == [p \in PhysHandles |-> {MEM_BUDGET, SYNC2}]

Max(a, b) == IF a > b THEN a ELSE b
Min(a, b) == IF a < b THEN a ELSE b

\* std::unordered_map: map[k] = v, and erase(k).
Put(map, k, v) == [x \in (DOMAIN map) \cup {k} |-> IF x = k THEN v ELSE map[x]]
Drop(map, k) == [x \in (DOMAIN map) \ {k} |-> map[x]]
EmptyMap == [x \in {} |-> 0]

Range(s) == {s[i] : i \in DOMAIN s}

\* The down-chain hands out the lowest handle that is not in use.
Fresh(h, handles, used) == h \in handles \ used /\ \A k \in handles \ used : h <= k

\* The record of the last call: its result, whether its down-chain counterpart
\* was invoked and, of a wait, its waitAll flag, the fences forwarded to the
\* down-chain wait and the time slept; of a device creation, the extension
\* names of the application's structure and of the structure handed down, as
\* they stand when the call returns; of a symbol lookup, the function returned.
\* walk is <<>> once the call has returned; while the call is inside a loop
\* over an extension chain it holds the chain and the loop's pointer into it.
\* drv is the result the delegated call produced, "none" when none was made:
\* the entry points return the local variable that call was assigned to.
Ret(result, down) ==
    [result |-> result, down |-> down, all |-> FALSE, fwd |-> <<>>, slept |-> 0,
     create |-> <<>>, proc |-> <<>>, drv |-> IF down THEN result ELSE "none", tool |-> <<>>,
     walk |-> <<>>]

(***************************************************************************)
(* Instances and physical devices.                                         *)
(***************************************************************************)
\* The settings CreateInstance records.  The memory tracker reads no setting
\* and tracks unconditionally.
InstanceSettings(type, count, percent, minor, extensions) ==
    IF layer = "simulator"
    THEN LET memory_percent == Max(Min(percent, 100), 1)
         IN  [fence_delay_type |-> type,
              fence_delay_count |-> Max(count, 0),
              memory_percent |-> memory_percent,
              layer_enabled |-> ~(type = "FENCE_DELAY_NONE" /\ memory_percent = 100),
              core_1_1 |-> (minor > 0),
              KHR_get_phys_dev_props2 |-> (PHYS_DEV_PROPS2 \in extensions)]
    ELSE [fence_delay_type |-> "FENCE_DELAY_NONE", fence_delay_count |-> 0,
          memory_percent |-> 100, layer_enabled |-> TRUE, core_1_1 |-> (minor > 0),
          KHR_get_phys_dev_props2 |-> (PHYS_DEV_PROPS2 \in extensions)]

\* extensions: the instance extensions the application enables.
CreateInstance(i, type, count, percent, minor, extensions, res) ==
    /\ Fresh(i, InstanceHandles, driver.instances)
    /\ IF res = "VK_SUCCESS"
       THEN /\ driver' = [driver EXCEPT !.instances = @ \cup {i}]
            /\ g_instance_map' = Put(g_instance_map, i, InstanceSettings(type, count, percent, minor, extensions))
       ELSE UNCHANGED <<driver, g_instance_map>>
    /\ ret' = Ret(res, TRUE)
    /\ UNCHANGED <<layer, threads, mutex, hist, g_phys_device_map, g_device_map, g_buffer_map, g_image_map,
                   g_memory_map, g_fence_map, g_ext_mem_fd_map, now>>

\* memset(&props, 0), memset(&memory_props, 0) and the defaults of PhysDeviceMapStruct.
ZeroHeap == [size |-> 0, allocated |-> 0, budget |-> 0, usage |-> 0]
ZeroMemoryProps ==
    [memoryTypeCount |-> 0, memoryTypes |-> [t \in TypeIndexes |-> 0],
     memoryHeapCount |-> 0, memoryHeaps |-> [h \in HeapIndexes |-> ZeroHeap]]
NewPhysDevice(inst) ==
    [instance |-> VK_NULL_HANDLE,
     props |-> [deviceName |-> FALSE, apiMinor |-> 0],
     memory_props |-> ZeroMemoryProps,
     extensions_supported |-> [core_1_1 |-> FALSE, EXT_mem_budget |-> FALSE, KHR_sync2 |-> FALSE],
     memory_budget_updated |-> FALSE,
     layer_enabled |-> inst.layer_enabled,
     memory_percent |-> inst.memory_percent]

EnumeratePhysicalDevices(i, res) ==
    /\ i \in driver.instances
    /\ i \in DOMAIN g_instance_map
    /\ g_phys_device_map' =
          IF res = "VK_SUCCESS"
          THEN [p \in (DOMAIN g_phys_device_map) \cup PhysHandles |->
                   IF p \in PhysHandles
                   THEN [(IF p \in DOMAIN g_phys_device_map THEN g_phys_device_map[p]
                          ELSE NewPhysDevice(g_instance_map[i])) EXCEPT !.instance = i]
                   ELSE g_phys_device_map[p]]
          ELSE g_phys_device_map
    /\ ret' = Ret(res, TRUE)
    /\ UNCHANGED <<layer, threads, mutex, hist, g_instance_map, g_device_map, g_buffer_map, g_image_map,
                   g_memory_map, g_fence_map, g_ext_mem_fd_map, driver, now>>

\* The layer's GetPhysicalDeviceProperties, applied to a physical device record.
WithProperties(p, phys) ==
    IF phys.layer_enabled
    THEN [phys EXCEPT !.props = [deviceName |-> TRUE, apiMinor |-> DrvApiMinor[p]]]
    ELSE phys

\* static_cast<VkDeviceSize>(double(in_size) * (double(percent) / 100.0))
AdjustMemoryByPercent(in_size, percent) == (in_size * percent) \div 100

\* budget_props is <<>> for a null pointer and <<b>> for the structure b the
\* down-chain filled in.  The result is the record and the heap sizes written
\* back into the caller's structure.
ManageMemoryProperties(phys, budget_props) ==
    LET scaled(v) == IF phys.memory_percent < 100
                     THEN AdjustMemoryByPercent(v, phys.memory_percent) ELSE v
        heap(h) == [size |-> scaled(DrvHeapSize[h]),
                    allocated |-> phys.memory_props.memoryHeaps[h].allocated,
                    usage |-> IF budget_props # <<>> THEN scaled(budget_props[1].heapUsage[h]) ELSE 0,
                    budget |-> IF budget_props # <<>> THEN budget_props[1].heapBudget[h] ELSE 0]
    IN  [phys EXCEPT !.memory_props =
                         [memoryTypeCount |-> Cardinality(TypeIndexes),
                          memoryTypes |-> DrvTypeHeap,
                          memoryHeapCount |-> Cardinality(HeapIndexes),
                          memoryHeaps |-> [h \in HeapIndexes |-> heap(h)]],
                     !.memory_budget_updated = IF budget_props # <<>> THEN TRUE ELSE @]

\* The layer's GetPhysicalDeviceMemoryProperties, applied to a record.
WithMemoryProperties(phys) ==
    IF phys.layer_enabled THEN ManageMemoryProperties(phys, <<>>) ELSE phys

\* The pNext walk of GetPhysicalDeviceMemoryProperties2: the loop leaves with the
\* first structure when that is the budget structure, with null on an empty
\* chain, and otherwise never advances.
FindMemBudget(chain) ==
    IF chain = <<>> THEN "null"
    ELSE IF Head(chain) = "MEMORY_BUDGET_PROPERTIES_EXT" THEN "found"
    ELSE "hang"

\* The layer's GetPhysicalDeviceMemoryProperties2 with the chain and the budget
\* structure b as the down-chain left it.
WithMemoryProperties2(phys, chain, b) ==
    IF phys.layer_enabled
    THEN ManageMemoryProperties(phys, IF FindMemBudget(chain) = "found" THEN <<b>> ELSE <<>>)
    ELSE phys

DrvBudgetProps(budget) ==
    [heapBudget |-> [h \in HeapIndexes |-> budget], heapUsage |-> DrvHeapUsage]

\* A physical device the layer has a record for, of an instance that is alive.
KnownPhys(p) ==
    /\ p \in DOMAIN g_phys_device_map
    /\ g_phys_device_map[p].instance \in driver.instances
    /\ g_phys_device_map[p].instance \in DOMAIN g_instance_map

GetPhysicalDeviceMemoryProperties(p) ==
    /\ KnownPhys(p)
    /\ g_phys_device_map' = [g_phys_device_map EXCEPT ![p] = WithMemoryProperties(@)]
    /\ ret' = Ret("void", TRUE)
    /\ UNCHANGED <<layer, threads, mutex, hist, g_instance_map, g_device_map, g_buffer_map, g_image_map,
                   g_memory_map, g_fence_map, g_ext_mem_fd_map, driver, now>>

\* The call in progress, inside the loop of the named entry point.
Walking(call, handle, chain, result) ==
    [Ret("running", TRUE) EXCEPT
        !.walk = <<[call |-> call, handle |-> handle, pNext |-> chain, cur |-> chain,
                    result |-> result]>>]

\* With a chain the loop cannot leave, the call stays in the loop before
\* ManageMemoryProperties (CopyMemoryProperties) is reached.
GetPhysicalDeviceMemoryProperties2(p, chain, budget) ==
    /\ KnownPhys(p)
    /\ IF g_phys_device_map[p].layer_enabled /\ FindMemBudget(chain) = "hang"
       THEN /\ UNCHANGED g_phys_device_map
            /\ ret' = Walking("GetPhysicalDeviceMemoryProperties2", p, chain, "void")
       ELSE /\ g_phys_device_map' =
                  [g_phys_device_map EXCEPT
                      ![p] = WithMemoryProperties2(@, chain, DrvBudgetProps(budget))]
            /\ ret' = Ret("void", TRUE)
    /\ UNCHANGED <<layer, threads, mutex, hist, g_instance_map, g_device_map, g_buffer_map, g_image_map,
                   g_memory_map, g_fence_map, g_ext_mem_fd_map, driver, now>>

\* names: the extensions the down-chain reports for the physical device.
EnumerateDeviceExtensionProperties(p, names, res) ==
    /\ KnownPhys(p)
    /\ LET phys == g_phys_device_map[p]
           inst == g_instance_map[phys.instance]
           with_props == IF phys.props.deviceName THEN phys ELSE WithProperties(p, phys)
       IN  g_phys_device_map' =
              IF phys.layer_enabled /\ res = "VK_SUCCESS"
              THEN [g_phys_device_map EXCEPT ![p] =
                       [with_props EXCEPT
                           !.extensions_supported.core_1_1 =
                               IF inst.core_1_1 /\ with_props.props.apiMinor > 0 THEN TRUE ELSE @,
                           !.extensions_supported.EXT_mem_budget =
                               IF MEM_BUDGET \in names THEN TRUE ELSE @,
                           !.extensions_supported.KHR_sync2 =
                               IF SYNC2 \in names THEN TRUE ELSE @]]
              ELSE g_phys_device_map
    /\ ret' = Ret(res, TRUE)
    /\ UNCHANGED <<layer, threads, mutex, hist, g_instance_map, g_device_map, g_buffer_map, g_image_map,
                   g_memory_map, g_fence_map, g_ext_mem_fd_map, driver, now>>

(***************************************************************************)
(* Devices.                                                                *)
(***************************************************************************)
\* The application's device: alive in the down-chain and created through the layer.
LiveDevice(d) ==
    /\ d \in DOMAIN driver.devices
    /\ d \in DOMAIN g_device_map
    /\ KnownPhys(g_device_map[d].physical_device)

\* device_map_data->layer_enabled; the memory tracker has no such switch.
LayerOn(d) == g_device_map[d].layer_enabled

\* The memory budget extension pushed onto every list.
AlwaysPushed(phys, names) == Append(names, MEM_BUDGET)

\* The extension list CreateDevice passes down, a copy of the application's:
\* the memory budget extension is pushed onto its end when the record of the
\* physical device has it supported and the application left it out.
LocalCreateExtensions(phys, names) ==
    IF /\ phys.extensions_supported.core_1_1
       /\ phys.extensions_supported.EXT_mem_budget
       /\ MEM_BUDGET \notin Range(names)
    THEN Append(names, MEM_BUDGET)
    ELSE names

NewDevice(p, inst, local_names) ==
    [physical_device |-> p,
     EXT_mem_budget |-> (MEM_BUDGET \in Range(local_names)),
     KHR_sync2 |-> (SYNC2 \in Range(local_names)),
     EXT_swapchain_maintenance1 |-> (SWAPCHAIN_MAINT1 \in Range(local_names)),
     memory_bindings_updated |-> FALSE,
     layer_enabled |-> inst.layer_enabled,
     fence_delay_type |-> inst.fence_delay_type,
     fence_delay_count |-> inst.fence_delay_count]

\* The queries CreateDevice makes for a physical device it has not cached yet.
PhysAfterCreateDevice(p, phys, dev, budget) ==
    LET with_props == IF phys.props.deviceName THEN phys ELSE WithProperties(p, phys)
    IN  IF with_props.memory_props.memoryHeapCount = 0
        THEN IF dev.EXT_mem_budget
             THEN WithMemoryProperties2(with_props, <<"MEMORY_BUDGET_PROPERTIES_EXT">>,
                                        DrvBudgetProps(budget))
             ELSE WithMemoryProperties(with_props)
        ELSE with_props

CreateDevice(p, d, names, budget, res) ==
    /\ KnownPhys(p)
    /\ Fresh(d, DeviceHandles, DOMAIN driver.devices)
    /\ LET phys == g_phys_device_map[p]
           local_names == LocalCreateExtensions(phys, names)
           dev == NewDevice(p, g_instance_map[phys.instance], local_names)
       IN  /\ IF res = "VK_SUCCESS"
              THEN /\ driver' = [driver EXCEPT !.devices = Put(@, d, p)]
                   /\ g_phys_device_map' =
                         [g_phys_device_map EXCEPT ![p] = PhysAfterCreateDevice(p, phys, dev, budget)]
                   /\ g_device_map' = Put(g_device_map, d, dev)
              ELSE UNCHANGED <<driver, g_phys_device_map, g_device_map>>
           /\ ret' = [Ret(res, TRUE) EXCEPT
                         !.create = <<[physicalDevice |-> p, pCreateInfo |-> names,
                                       local_create |-> local_names]>>]
    /\ UNCHANGED <<layer, threads, mutex, hist, g_instance_map, g_buffer_map, g_image_map, g_memory_map,
                   g_fence_map, g_ext_mem_fd_map, now>>

\* The objects of a device die with it in the down-chain.
OwnedBy(map, d) == {k \in DOMAIN map : map[k] = d}
Without(map, d) == [k \in (DOMAIN map) \ OwnedBy(map, d) |-> map[k]]

\* EraseInstanceMapEntry and EraseDeviceMapEntry: the entry goes if there is one.
EraseInstanceMapEntry(im, i) == IF i \in DOMAIN im THEN Drop(im, i) ELSE im
EraseDeviceMapEntry(dm, d) == IF d \in DOMAIN dm THEN Drop(dm, d) ELSE dm

EraseExternalMemFdMapEntries(d) ==
    [fd \in {k \in DOMAIN g_ext_mem_fd_map : g_ext_mem_fd_map[k].device # d} |-> g_ext_mem_fd_map[fd]]

DestroyDevice(d) ==
    /\ LiveDevice(d)
    /\ driver' = [driver EXCEPT !.devices = Drop(@, d),
                                !.buffers = Without(@, d), !.images = Without(@, d),
                                !.memories = Without(@, d), !.fences = Without(@, d)]
    /\ g_ext_mem_fd_map' = EraseExternalMemFdMapEntries(d)
    /\ g_device_map' = EraseDeviceMapEntry(g_device_map, d)
    /\ hist' = [f \in (DOMAIN hist) \ OwnedBy(driver.fences, d) |-> hist[f]]
    /\ ret' = Ret("void", TRUE)
    /\ UNCHANGED <<layer, threads, mutex, g_instance_map, g_phys_device_map, g_buffer_map, g_image_map,
                   g_memory_map, g_fence_map, now>>

\* The application has destroyed the devices of the instance, so the loop over
\* g_device_map finds none to destroy: the records of the physical devices of
\* the instance go, then the record of the instance.  The down-chain
\* DestroyInstance is not called.
DestroyInstance(i) ==
    /\ i \in driver.instances
    /\ i \in DOMAIN g_instance_map
    /\ \A d \in DOMAIN g_device_map :
          KnownPhys(g_device_map[d].physical_device)
          => g_phys_device_map[g_device_map[d].physical_device].instance # i
    /\ g_phys_device_map' =
          [p \in {k \in DOMAIN g_phys_device_map : g_phys_device_map[k].instance # i}
              |-> g_phys_device_map[p]]
    /\ g_instance_map' = EraseInstanceMapEntry(g_instance_map, i)
    /\ ret' = Ret("void", FALSE)
    /\ UNCHANGED <<layer, threads, mutex, hist, driver, g_device_map, g_buffer_map, g_image_map, g_memory_map,
                   g_fence_map, g_ext_mem_fd_map, now>>

GetMemoryFdPropertiesKHR(d, fd, bits, res) ==
    /\ LiveDevice(d)
    /\ g_ext_mem_fd_map' =
          IF LayerOn(d) /\ res = "VK_SUCCESS"
          THEN Put(g_ext_mem_fd_map, fd, [device |-> d, memory_type |-> bits])
          ELSE g_ext_mem_fd_map
    /\ ret' = Ret(res, TRUE)
    /\ UNCHANGED <<layer, threads, mutex, hist, g_instance_map, g_phys_device_map, g_device_map, g_buffer_map,
                   g_image_map, g_memory_map, g_fence_map, driver, now>>

(***************************************************************************)
(* Buffers and images.                                                     *)
(***************************************************************************)
\* The structures of a buffer's creation chain: the three the layers read,
\* with the value each carries, and structures of other types.
OPAQUE_CAPTURE == "VK_STRUCTURE_TYPE_BUFFER_OPAQUE_CAPTURE_ADDRESS_CREATE_INFO"
EXTERNAL_MEMORY == "VK_STRUCTURE_TYPE_EXTERNAL_MEMORY_BUFFER_CREATE_INFO"
DEVICE_ADDRESS == "VK_STRUCTURE_TYPE_BUFFER_DEVICE_ADDRESS_CREATE_INFO_EXT"
OTHER_STRUCTURE == "VK_STRUCTURE_TYPE_BUFFER_USAGE_FLAGS_2_CREATE_INFO_KHR"

BufferStructures ==
    [sType : {OPAQUE_CAPTURE}, value : {7}] \cup [sType : {EXTERNAL_MEMORY}, value : {1, 2}]
    \cup [sType : {DEVICE_ADDRESS}, value : {9}] \cup [sType : {OTHER_STRUCTURE}, value : {5}]

\* The record after memset: no validity flag and every value zero.
ZeroAdditionalBuffer ==
    [flags |-> {}, opaque_capture_address |-> 0, external_memory_handle_flags |-> 0,
     device_address |-> 0]

\* One turn of the switch on sType.
ReadBufferStructure(info, st) ==
    CASE st.sType = OPAQUE_CAPTURE ->
           [info EXCEPT !.flags = @ \cup {"ADD_BUFFER_VALID_OPAQUE_CAPTURE"},
                        !.opaque_capture_address = st.value]
      [] st.sType = EXTERNAL_MEMORY ->
           [info EXCEPT !.flags = @ \cup {"ADD_BUFFER_VALID_EXTERNAL_MEM_HANDLE_FLAGS"},
                        !.external_memory_handle_flags = st.value]
      [] st.sType = DEVICE_ADDRESS ->
           [info EXCEPT !.flags = @ \cup {"ADD_BUFFER_VALID_DEVICE_ADDRESS"},
                        !.device_address = st.value]
      [] OTHER -> info

\* A walk that ends at the first structure it does not read.
RECURSIVE StopAtUnread(_, _)
StopAtUnread(info, chain) ==
    IF chain = <<>> \/ Head(chain).sType = OTHER_STRUCTURE THEN info
    ELSE StopAtUnread(ReadBufferStructure(info, Head(chain)), Tail(chain))

\* The while loop over pNext, from the head of the chain to its null end.
RECURSIVE WalkBufferChain(_, _)
WalkBufferChain(info, chain) ==
    IF chain = <<>> THEN info
    ELSE WalkBufferChain(ReadBufferStructure(info, Head(chain)), Tail(chain))

NewBuffer(d, chain) ==
    [device |-> d, additional_info |-> WalkBufferChain(ZeroAdditionalBuffer, chain)]

CreateBuffer(d, b, chain, res) ==
    /\ LiveDevice(d)
    /\ Fresh(b, BufferHandles, DOMAIN driver.buffers)
    /\ driver' = IF res = "VK_SUCCESS" THEN [driver EXCEPT !.buffers = Put(@, b, d)] ELSE driver
    /\ g_buffer_map' = IF LayerOn(d) /\ res = "VK_SUCCESS"
                       THEN Put(g_buffer_map, b, NewBuffer(d, chain)) ELSE g_buffer_map
    /\ ret' = Ret(res, TRUE)
    /\ UNCHANGED <<layer, threads, mutex, hist, g_instance_map, g_phys_device_map, g_device_map, g_image_map,
                   g_memory_map, g_fence_map, g_ext_mem_fd_map, now>>

CreateImage(d, img, res) ==
    /\ LiveDevice(d)
    /\ Fresh(img, ImageHandles, DOMAIN driver.images)
    /\ driver' = IF res = "VK_SUCCESS" THEN [driver EXCEPT !.images = Put(@, img, d)] ELSE driver
    /\ g_image_map' = IF LayerOn(d) /\ res = "VK_SUCCESS"
                      THEN Put(g_image_map, img, [device |-> d]) ELSE g_image_map
    /\ ret' = Ret(res, TRUE)
    /\ UNCHANGED <<layer, threads, mutex, hist, g_instance_map, g_phys_device_map, g_device_map, g_buffer_map,
                   g_memory_map, g_fence_map, g_ext_mem_fd_map, now>>

KeepEntries(mm, b) == mm

\* The inner loops of the erase and bind code: drop every entry naming the
\* buffer (image) from the list of every memory record.
RemoveBuffer(mm, b) ==
    [m \in DOMAIN mm |-> [mm[m] EXCEPT !.buffers = SelectSeq(@, LAMBDA e : e.buffer # b)]]
RemoveImage(mm, img) ==
    [m \in DOMAIN mm |-> [mm[m] EXCEPT !.images = SelectSeq(@, LAMBDA e : e.image # img)]]

\* The buffer registry and the memory registry after the erase of a buffer:
\* nothing happens unless the buffer has a record.
ErasedBuffer(bm, mm, b) ==
    IF b \in DOMAIN bm
    THEN [buffers |-> Drop(bm, b), memories |-> RemoveBuffer(mm, b)]
    ELSE [buffers |-> bm, memories |-> mm]

ErasedImage(im, mm, img) ==
    IF img \in DOMAIN im
    THEN [images |-> Drop(im, img), memories |-> RemoveImage(mm, img)]
    ELSE [images |-> im, memories |-> mm]

EraseBufferMapEntry(b) ==
    LET erased == ErasedBuffer(g_buffer_map, g_memory_map, b)
    IN  /\ g_buffer_map' = erased.buffers
        /\ g_memory_map' = erased.memories

EraseImageMapEntry(img) ==
    LET erased == ErasedImage(g_image_map, g_memory_map, img)
    IN  /\ g_image_map' = erased.images
        /\ g_memory_map' = erased.memories

DestroyBuffer(d, b) ==
    /\ LiveDevice(d)
    /\ b \in OwnedBy(driver.buffers, d)
    /\ driver' = [driver EXCEPT !.buffers = Drop(@, b)]
    /\ EraseBufferMapEntry(b)
    /\ ret' = Ret("void", TRUE)
    /\ UNCHANGED <<layer, threads, mutex, hist, g_instance_map, g_phys_device_map, g_device_map, g_image_map,
                   g_fence_map, g_ext_mem_fd_map, now>>

DestroyImage(d, img) ==
    /\ LiveDevice(d)
    /\ img \in OwnedBy(driver.images, d)
    /\ driver' = [driver EXCEPT !.images = Drop(@, img)]
    /\ EraseImageMapEntry(img)
    /\ ret' = Ret("void", TRUE)
    /\ UNCHANGED <<layer, threads, mutex, hist, g_instance_map, g_phys_device_map, g_device_map, g_buffer_map,
                   g_fence_map, g_ext_mem_fd_map, now>>

(***************************************************************************)
(* Memory: admission, allocation and release.                              *)
(***************************************************************************)
PhysOf(d) == g_device_map[d].physical_device
\* memory_props.memoryTypes[type].heapIndex
HeapOfType(phys, type) == phys.memory_props.memoryTypes[type]

NeverFails(d, size, type) == FALSE

\* The check AllocateMemory makes before it calls down: TRUE when the request
\* is turned away.
PreflightFails(d, size, type) ==
    LET phys == g_phys_device_map[PhysOf(d)]
        budget_heap == phys.memory_props.memoryHeaps[HeapOfType(phys, type)]
        potential_alloc == budget_heap.allocated + size
    IN  /\ LayerOn(d)
        /\ phys.memory_percent < 100
        /\ IF budget_heap.budget > 0
           THEN potential_alloc > budget_heap.budget
           ELSE potential_alloc > budget_heap.size

NewMemory(d, size, type) ==
    [device |-> d, allocationSize |-> size, memoryTypeIndex |-> type,
     buffers |-> <<>>, images |-> <<>>]

NotCounted(pm, p, type, delta) == pm

\* budget_heap->allocated += delta for the heap of a memory type
AddAllocated(pm, p, type, delta) ==
    [pm EXCEPT ![p].memory_props.memoryHeaps[HeapOfType(pm[p], type)].allocated =
                   @ + delta]

AllocateMemory(d, m, size, type, res) ==
    /\ LiveDevice(d)
    /\ Fresh(m, MemoryHandles, DOMAIN driver.memories)
    /\ IF PreflightFails(d, size, type)
       THEN /\ ret' = Ret("VK_ERROR_OUT_OF_DEVICE_MEMORY", FALSE)
            /\ UNCHANGED <<driver, g_memory_map, g_phys_device_map>>
       ELSE /\ ret' = Ret(res, TRUE)
            /\ driver' = IF res = "VK_SUCCESS"
                         THEN [driver EXCEPT !.memories = Put(@, m, d)] ELSE driver
            /\ IF LayerOn(d) /\ res = "VK_SUCCESS"
               THEN /\ g_memory_map' = Put(g_memory_map, m, NewMemory(d, size, type))
                    /\ g_phys_device_map' =
                          IF g_phys_device_map[PhysOf(d)].memory_percent < 100
                          THEN AddAllocated(g_phys_device_map, PhysOf(d), type, size)
                          ELSE g_phys_device_map
               ELSE UNCHANGED <<g_memory_map, g_phys_device_map>>
    /\ UNCHANGED <<layer, threads, mutex, hist, g_instance_map, g_device_map, g_buffer_map, g_image_map,
                   g_fence_map, g_ext_mem_fd_map, now>>

KeepMemory(mm, m) == mm

EraseOrClear(mm, m) == IF m \in DOMAIN mm THEN Drop(mm, m) ELSE EmptyMap

EraseMemoryMapEntry(mm, m) == IF m \in DOMAIN mm THEN Drop(mm, m) ELSE mm

\* The memory is one the application allocated on the device and has not freed;
\* on a tracking device such a memory has a record.  A negative counter stands
\* for the unsigned counter having wrapped.
FreeMemory(d, m) ==
    /\ LiveDevice(d)
    /\ m \in OwnedBy(driver.memories, d)
    /\ LayerOn(d) => m \in DOMAIN g_memory_map
    /\ driver' = [driver EXCEPT !.memories = Drop(@, m)]
    /\ IF LayerOn(d)
       THEN /\ g_phys_device_map' =
                  IF g_phys_device_map[PhysOf(d)].memory_percent < 100
                  THEN AddAllocated(g_phys_device_map, PhysOf(d),
                                    g_memory_map[m].memoryTypeIndex,
                                    0 - g_memory_map[m].allocationSize)
                  ELSE g_phys_device_map
            /\ g_memory_map' = EraseMemoryMapEntry(g_memory_map, m)
       ELSE UNCHANGED <<g_phys_device_map, g_memory_map>>
    /\ ret' = Ret("void", TRUE)
    /\ UNCHANGED <<layer, threads, mutex, hist, g_instance_map, g_device_map, g_buffer_map, g_image_map,
                   g_fence_map, g_ext_mem_fd_map, now>>

(***************************************************************************)
(* Binding.                                                                *)
(***************************************************************************)
\* One element of a bind call on the memory map: the resource leaves every
\* list, and joins the list of the memory it is bound to.
BindOneBuffer(mm, info) ==
    IF info.buffer # VK_NULL_HANDLE
    THEN LET cleared == RemoveBuffer(mm, info.buffer)
         IN  IF info.memory # VK_NULL_HANDLE
             THEN [cleared EXCEPT ![info.memory].buffers =
                      Append(@, [buffer |-> info.buffer, offset |-> info.memoryOffset])]
             ELSE cleared
    ELSE mm

BindOneImage(mm, info) ==
    IF info.image # VK_NULL_HANDLE
    THEN LET cleared == RemoveImage(mm, info.image)
         IN  IF info.memory # VK_NULL_HANDLE
             THEN [cleared EXCEPT ![info.memory].images =
                      Append(@, [image |-> info.image, offset |-> info.memoryOffset])]
             ELSE cleared
    ELSE mm

RECURSIVE BindBufferInfos(_, _)
BindBufferInfos(mm, infos) ==
    IF infos = <<>> THEN mm
    ELSE BindBufferInfos(BindOneBuffer(mm, Head(infos)), Tail(infos))

RECURSIVE BindImageInfos(_, _)
BindImageInfos(mm, infos) ==
    IF infos = <<>> THEN mm
    ELSE BindImageInfos(BindOneImage(mm, Head(infos)), Tail(infos))

\* memory_bindings_updated = true on the device, memory_budget_updated = false
\* on its physical device.
MarkBindingsUpdated(d) ==
    /\ g_device_map' = [g_device_map EXCEPT ![d].memory_bindings_updated = TRUE]
    /\ g_phys_device_map' = [g_phys_device_map EXCEPT ![PhysOf(d)].memory_budget_updated = FALSE]

\* What the application may bind on a device: its own buffers (images) and
\* memories, or null handles.
BindableMemories(d) ==
    {VK_NULL_HANDLE} \cup
    {m \in OwnedBy(driver.memories, d) : LayerOn(d) => m \in DOMAIN g_memory_map}
BufferInfos(d) ==
    [buffer : {VK_NULL_HANDLE} \cup OwnedBy(driver.buffers, d),
     memory : BindableMemories(d), memoryOffset : Offsets]
ImageInfos(d) ==
    [image : {VK_NULL_HANDLE} \cup OwnedBy(driver.images, d),
     memory : BindableMemories(d), memoryOffset : Offsets]

\* The elements of the batches the application binds in one call.
BatchBufferInfos(d) == {x \in BufferInfos(d) : x.memoryOffset = 0}
BatchImageInfos(d) == {x \in ImageInfos(d) : x.memoryOffset = 0}

BindBufferMemory(d, info, res) ==
    /\ LiveDevice(d)
    /\ info \in BufferInfos(d)
    /\ IF LayerOn(d) /\ res = "VK_SUCCESS" /\ info.buffer # VK_NULL_HANDLE
       THEN /\ g_memory_map' = BindOneBuffer(g_memory_map, info)
            /\ MarkBindingsUpdated(d)
       ELSE UNCHANGED <<g_memory_map, g_device_map, g_phys_device_map>>
    /\ ret' = Ret(res, TRUE)
    /\ UNCHANGED <<layer, threads, mutex, hist, g_instance_map, g_buffer_map, g_image_map, g_fence_map,
                   g_ext_mem_fd_map, driver, now>>

BindImageMemory(d, info, res) ==
    /\ LiveDevice(d)
    /\ info \in ImageInfos(d)
    /\ IF LayerOn(d) /\ res = "VK_SUCCESS" /\ info.image # VK_NULL_HANDLE
       THEN /\ g_memory_map' = BindOneImage(g_memory_map, info)
            /\ MarkBindingsUpdated(d)
       ELSE UNCHANGED <<g_memory_map, g_device_map, g_phys_device_map>>
    /\ ret' = Ret(res, TRUE)
    /\ UNCHANGED <<layer, threads, mutex, hist, g_instance_map, g_buffer_map, g_image_map, g_fence_map,
                   g_ext_mem_fd_map, driver, now>>

BindBufferMemory2(d, infos, res) ==
    /\ LiveDevice(d)
    /\ infos \in Seq(BufferInfos(d))
    /\ IF LayerOn(d) /\ res = "VK_SUCCESS"
       THEN /\ g_memory_map' = BindBufferInfos(g_memory_map, infos)
            /\ MarkBindingsUpdated(d)
       ELSE UNCHANGED <<g_memory_map, g_device_map, g_phys_device_map>>
    /\ ret' = Ret(res, TRUE)
    /\ UNCHANGED <<layer, threads, mutex, hist, g_instance_map, g_buffer_map, g_image_map, g_fence_map,
                   g_ext_mem_fd_map, driver, now>>

BindImageMemory2(d, infos, res) ==
    /\ LiveDevice(d)
    /\ infos \in Seq(ImageInfos(d))
    /\ IF LayerOn(d) /\ res = "VK_SUCCESS"
       THEN /\ g_memory_map' = BindImageInfos(g_memory_map, infos)
            /\ MarkBindingsUpdated(d)
       ELSE UNCHANGED <<g_memory_map, g_device_map, g_phys_device_map>>
    /\ ret' = Ret(res, TRUE)
    /\ UNCHANGED <<layer, threads, mutex, hist, g_instance_map, g_buffer_map, g_image_map, g_fence_map,
                   g_ext_mem_fd_map, driver, now>>

(***************************************************************************)
(* Fences (simulator).                                                     *)
(***************************************************************************)
SECOND_NS == 1000 * 1000000
FenceResults == {"VK_SUCCESS", "VK_ERROR_DEVICE_LOST"}
StatusResults == {"VK_SUCCESS", "VK_NOT_READY"}
WaitResults == {"VK_SUCCESS", "VK_TIMEOUT"}
Timeouts == {0, 1000000, SECOND_NS}
Delayed(fr) == fr.delay_type # "FENCE_DELAY_NONE"

NewFence(d, signaled_bit) ==
    [device |-> d, signalled |-> signaled_bit,
     delay_type |-> g_device_map[d].fence_delay_type,
     delay_count |-> g_device_map[d].fence_delay_count,
     wait_started |-> FALSE, wait_completed |-> FALSE,
     elapsed_count |-> 0, start_time |-> 0]

\* History of a fence since its creation or last reset: the status queries
\* made after its signal, whether a wait named it, whether it was ever reset,
\* and whether it has been submitted for signal.
NewHist(pending) ==
    [post |-> 0, waited |-> FALSE, reset |-> FALSE, pending |-> pending]

\* The application's fence: created on the device and not destroyed; on a
\* tracking device such a fence has a record.
LiveFence(d, f) ==
    /\ f \in OwnedBy(driver.fences, d)
    /\ LayerOn(d) => f \in DOMAIN g_fence_map

CreateFence(d, f, signaled_bit, res) ==
    /\ LiveDevice(d)
    /\ Fresh(f, FenceHandles, DOMAIN driver.fences)
    /\ IF res = "VK_SUCCESS"
       THEN /\ driver' = [driver EXCEPT !.fences = Put(@, f, d)]
            /\ hist' = Put(hist, f, NewHist(signaled_bit))
       ELSE UNCHANGED <<driver, hist>>
    /\ g_fence_map' = IF LayerOn(d) /\ res = "VK_SUCCESS"
                      THEN Put(g_fence_map, f, NewFence(d, signaled_bit)) ELSE g_fence_map
    /\ ret' = Ret(res, TRUE)
    /\ UNCHANGED <<layer, threads, mutex, g_instance_map, g_phys_device_map, g_device_map, g_buffer_map,
                   g_image_map, g_memory_map, g_ext_mem_fd_map, now>>

EraseFenceMapEntry(fm, f) == IF f \in DOMAIN fm THEN Drop(fm, f) ELSE fm

DestroyFence(d, f) ==
    /\ LiveDevice(d)
    /\ LiveFence(d, f)
    /\ driver' = [driver EXCEPT !.fences = Drop(@, f)]
    /\ hist' = Drop(hist, f)
    /\ g_fence_map' = IF LayerOn(d) THEN EraseFenceMapEntry(g_fence_map, f) ELSE g_fence_map
    /\ ret' = Ret("void", TRUE)
    /\ UNCHANGED <<layer, threads, mutex, g_instance_map, g_phys_device_map, g_device_map, g_buffer_map,
                   g_image_map, g_memory_map, g_ext_mem_fd_map, now>>

ResetFence(fr) ==
    [fr EXCEPT !.signalled = FALSE, !.wait_started = FALSE, !.wait_completed = FALSE,
               !.elapsed_count = 0]

\* The records are reset before the call goes down, whatever it then returns.
ResetFences(d, fences, res) ==
    /\ LiveDevice(d)
    /\ \A i \in DOMAIN fences : LiveFence(d, fences[i])
    /\ g_fence_map' =
          IF LayerOn(d)
          THEN [f \in DOMAIN g_fence_map |->
                   IF f \in Range(fences) THEN ResetFence(g_fence_map[f]) ELSE g_fence_map[f]]
          ELSE g_fence_map
    /\ hist' = [f \in DOMAIN hist |->
                   IF f \in Range(fences)
                   THEN [NewHist(IF res = "VK_SUCCESS" THEN FALSE ELSE hist[f].pending)
                            EXCEPT !.reset = TRUE]
                   ELSE hist[f]]
    /\ ret' = Ret(res, TRUE)
    /\ UNCHANGED <<layer, threads, mutex, g_instance_map, g_phys_device_map, g_device_map, g_buffer_map,
                   g_image_map, g_memory_map, g_ext_mem_fd_map, driver, now>>

\* A status query that notes the query and adds nothing to elapsed_count.
NoAccounting(fr, t) == [fr EXCEPT !.wait_started = TRUE]

\* elapsed_count as a status query at time t advances it, and wait_started.
StatusAccounting(fr, t) ==
    LET counted ==
          CASE fr.delay_type = "FENCE_DELAY_MS_FROM_TRIGGER" ->
                 [fr EXCEPT !.elapsed_count = @ + (t - fr.start_time)]
            [] fr.delay_type = "FENCE_DELAY_MS_FROM_FIRST_QUERY" ->
                 IF ~fr.wait_started THEN [fr EXCEPT !.start_time = t]
                 ELSE [fr EXCEPT !.elapsed_count = @ + (t - fr.start_time)]
            [] fr.delay_type = "FENCE_DELAY_NUM_FAIL_WAITS" ->
                 [fr EXCEPT !.elapsed_count = @ + 1]
            [] OTHER -> fr
    IN  [counted EXCEPT !.wait_started = TRUE]

\* The calls on a fence stop once its counters reach the bounds of the model.
WithinBounds(f) ==
    /\ hist[f].post < MaxPolls
    /\ f \in DOMAIN g_fence_map => g_fence_map[f].elapsed_count < MaxElapsed

GetFenceStatus(d, f, res) ==
    /\ LiveDevice(d)
    /\ LiveFence(d, f)
    /\ WithinBounds(f)
    /\ IF LayerOn(d) /\ Delayed(g_fence_map[f])
       THEN LET counted == StatusAccounting(g_fence_map[f], now)
            IN  IF ~counted.signalled \/ counted.delay_count > counted.elapsed_count
                THEN /\ g_fence_map' = [g_fence_map EXCEPT ![f] = counted]
                     /\ ret' = Ret("VK_NOT_READY", FALSE)
                ELSE /\ g_fence_map' = [g_fence_map EXCEPT ![f] =
                                           [counted EXCEPT !.wait_completed = TRUE]]
                     /\ ret' = Ret(res, TRUE)
       ELSE /\ UNCHANGED g_fence_map
            /\ ret' = Ret(res, TRUE)
    /\ hist' = [hist EXCEPT ![f].post = IF hist[f].pending THEN @ + 1 ELSE @]
    /\ UNCHANGED <<layer, threads, mutex, g_instance_map, g_phys_device_map, g_device_map, g_buffer_map,
                   g_image_map, g_memory_map, g_ext_mem_fd_map, driver, now>>

\* The fence of a successful submission is marked signalled.
SignalFence(fr, t) ==
    IF Delayed(fr)
    THEN [fr EXCEPT !.signalled = TRUE,
                    !.start_time = IF fr.delay_type = "FENCE_DELAY_MS_FROM_TRIGGER" THEN t ELSE @]
    ELSE fr

\* After a bind, the next submission refreshes the cached budget.
PhysAfterSubmit(phys, dev, budget) ==
    IF dev.memory_bindings_updated /\ ~phys.memory_budget_updated
    THEN WithMemoryProperties2(phys, <<"MEMORY_BUDGET_PROPERTIES_EXT">>, DrvBudgetProps(budget))
    ELSE phys

\* A submission on a queue of device d with fence f (or no fence).
QueueSubmit(d, f, budget, res) ==
    /\ LiveDevice(d)
    /\ f # VK_NULL_HANDLE => (LiveFence(d, f) /\ ~hist[f].pending)
    /\ IF LayerOn(d) /\ res = "VK_SUCCESS"
       THEN /\ g_fence_map' = IF f # VK_NULL_HANDLE
                              THEN [g_fence_map EXCEPT ![f] = SignalFence(@, now)]
                              ELSE g_fence_map
            /\ g_phys_device_map' =
                  [g_phys_device_map EXCEPT ![PhysOf(d)] =
                      PhysAfterSubmit(@, g_device_map[d], budget)]
            /\ g_device_map' = [g_device_map EXCEPT ![d].memory_bindings_updated = FALSE]
       ELSE UNCHANGED <<g_fence_map, g_phys_device_map, g_device_map>>
    /\ hist' = IF f # VK_NULL_HANDLE /\ res = "VK_SUCCESS"
               THEN [hist EXCEPT ![f].pending = TRUE] ELSE hist
    /\ ret' = Ret(res, TRUE)
    /\ UNCHANGED <<layer, threads, mutex, g_instance_map, g_buffer_map, g_image_map, g_memory_map,
                   g_ext_mem_fd_map, driver, now>>

\* A wait that counts like a status query, whatever its timeout.
CountEveryWait(fr, t, timeout) == StatusAccounting(fr, t)

\* elapsed_count as a wait at time t with the given timeout advances it.
WaitAccounting(fr, t, timeout) ==
    LET counted ==
          CASE fr.delay_type = "FENCE_DELAY_MS_FROM_TRIGGER" ->
                 [fr EXCEPT !.elapsed_count = @ + (t - fr.start_time)]
            [] fr.delay_type = "FENCE_DELAY_MS_FROM_FIRST_QUERY" ->
                 IF ~fr.wait_started THEN [fr EXCEPT !.start_time = t]
                 ELSE [fr EXCEPT !.elapsed_count = @ + (t - fr.start_time)]
            [] fr.delay_type = "FENCE_DELAY_NUM_FAIL_WAITS" ->
                 IF timeout >= SECOND_NS THEN fr ELSE [fr EXCEPT !.elapsed_count = @ + 1]
            [] OTHER -> fr
    IN  [counted EXCEPT !.wait_started = TRUE]

ForwardAll(acc, f, waitAll, timeout) == [acc EXCEPT !.fwd = Append(@, f)]

\* One turn of the loop of WaitForFences.  acc carries the fence map, the
\* clock, the list to forward, the time slept and whether the loop returned
\* VK_TIMEOUT.
WaitOne(acc, f, waitAll, timeout) ==
    IF acc.timed_out THEN acc
    ELSE IF f \in DOMAIN acc.fm /\ acc.fm[f].signalled /\ Delayed(acc.fm[f])
    THEN LET milliseconds_till_timeout == timeout \div 1000000
             fr == WaitAccounting(acc.fm[f], acc.t, timeout)
             fail_waits == fr.delay_type = "FENCE_DELAY_NUM_FAIL_WAITS"
             can_timeout == ~(fail_waits /\ timeout >= SECOND_NS)
             can_sleep == IF fail_waits THEN timeout >= SECOND_NS
                          ELSE milliseconds_till_timeout > 0 /\ fr.elapsed_count < fr.delay_count
             sleep_time == IF ~can_sleep THEN 0
                           ELSE IF fail_waits THEN fr.delay_count * 10
                           ELSE fr.delay_count - fr.elapsed_count
             total_max_elapsed_count ==
                 fr.elapsed_count + (IF can_sleep THEN milliseconds_till_timeout ELSE 0)
         IN  IF can_timeout /\ (~fr.signalled \/ fr.delay_count > total_max_elapsed_count)
             THEN [acc EXCEPT !.fm[f] = fr, !.timed_out = waitAll]
             ELSE [acc EXCEPT !.fm[f] = [fr EXCEPT !.wait_completed = TRUE],
                              !.t = @ + sleep_time, !.slept = @ + sleep_time,
                              !.fwd = Append(@, f)]
    ELSE [acc EXCEPT !.fwd = Append(@, f)]

ForwardList(acc, fences, waitAll, timeout) == [acc EXCEPT !.fwd = fences]

RECURSIVE WaitLoop(_, _, _, _)
WaitLoop(acc, fences, waitAll, timeout) ==
    IF fences = <<>> THEN acc
    ELSE WaitLoop(WaitOne(acc, Head(fences), waitAll, timeout), Tail(fences), waitAll, timeout)

\* What a wait on a tracking device comes to: the fence map and the clock it
\* leaves, and what it returns.  No fence left to forward means VK_TIMEOUT
\* without a call down the chain.
WaitOutcome(fm, t, fences, waitAll, timeout, res) ==
    LET acc == WaitLoop([fm |-> fm, t |-> t, fwd |-> <<>>, slept |-> 0, timed_out |-> FALSE],
                        fences, waitAll, timeout)
    IN  [fm |-> acc.fm, t |-> acc.t,
         ret |-> IF acc.timed_out \/ acc.fwd = <<>>
                 THEN [Ret("VK_TIMEOUT", FALSE) EXCEPT !.all = waitAll, !.slept = acc.slept]
                 ELSE [Ret(res, TRUE) EXCEPT !.all = waitAll, !.fwd = acc.fwd,
                                             !.slept = acc.slept]]

\* The fence lists the application may wait on.
Waitable(d, fences) ==
    /\ LiveDevice(d)
    /\ fences # <<>>
    /\ \A i \in DOMAIN fences : LiveFence(d, fences[i]) /\ WithinBounds(fences[i])
    /\ now <= MaxTime

WaitForFences(d, fences, waitAll, timeout, res) ==
    /\ Waitable(d, fences)
    /\ IF LayerOn(d)
       THEN LET out == WaitOutcome(g_fence_map, now, fences, waitAll, timeout, res)
            IN  /\ g_fence_map' = out.fm
                /\ now' = out.t
                /\ ret' = out.ret
       ELSE /\ ret' = [Ret(res, TRUE) EXCEPT !.all = waitAll, !.fwd = fences]
            /\ UNCHANGED <<g_fence_map, now>>
    /\ hist' = [f \in DOMAIN hist |->
                   IF f \in Range(fences) THEN [hist[f] EXCEPT !.waited = TRUE] ELSE hist[f]]
    /\ UNCHANGED <<layer, threads, mutex, g_instance_map, g_phys_device_map, g_device_map, g_buffer_map,
                   g_image_map, g_memory_map, g_ext_mem_fd_map, driver>>

Tick ==
    /\ now < MaxTime
    /\ now' = now + 1
    /\ UNCHANGED <<layer, threads, mutex, hist, g_instance_map, g_phys_device_map, g_device_map, g_buffer_map,
                   g_image_map, g_memory_map, g_fence_map, g_ext_mem_fd_map, driver, ret>>

(***************************************************************************)
(* Symbol lookup.  A function of the layer is named as in the source       *)
(* (BindBufferMemory2), the function the next link exports under a symbol  *)
(* is named by the symbol (vkBindBufferMemory2).                           *)
(***************************************************************************)
nullptr == "nullptr"

\* The symbols asked for: of every table of the layers one or two, and
\* vkCmdDraw, which neither layer implements.
Symbols ==
    {"vkEnumeratePhysicalDevices", "vkCreateDevice", "vkGetPhysicalDeviceMemoryProperties2",
     "vkGetPhysicalDeviceMemoryProperties2KHR", "vkBindBufferMemory", "vkBindBufferMemory2",
     "vkQueueSubmit2KHR", "vkCmdDraw"}

ImplementedInstanceCommands(name) ==
    CASE name = "vkCreateDevice" -> "CreateDevice"
      [] name = "vkEnumeratePhysicalDevices" -> "EnumeratePhysicalDevices"
      [] OTHER -> nullptr

ImplementedInstanceNewerCoreCommands(instance_map_data, name) ==
    IF instance_map_data.core_1_1 /\ name = "vkGetPhysicalDeviceMemoryProperties2"
    THEN "GetPhysicalDeviceMemoryProperties2"
    ELSE nullptr

ImplementedInstanceExtensionCommands(instance_map_data, name) ==
    IF instance_map_data.KHR_get_phys_dev_props2
       /\ name = "vkGetPhysicalDeviceMemoryProperties2KHR"
    THEN "GetPhysicalDeviceMemoryProperties2"
    ELSE nullptr

ImplementedDeviceCommands(name) ==
    CASE name = "vkCreateDevice" -> "CreateDevice"
      [] name = "vkBindBufferMemory" -> "BindBufferMemory"
      [] OTHER -> nullptr

\* supported is <<>> for a null pointer and <<flags>> for a DeviceExtensions record.
ImplementedDeviceExtensionCommands(supported, name) ==
    IF supported # <<>>
    THEN IF supported[1].core_1_1 /\ name = "vkBindBufferMemory2" THEN "BindBufferMemory2"
         ELSE IF supported[1].KHR_sync2 /\ name = "vkQueueSubmit2KHR" THEN "QueueSubmit2"
         ELSE nullptr
    ELSE nullptr

\* The lookup that ignores the gated table of the device.
SkipGatedTable(d, name, known) ==
    LET core == ImplementedDeviceCommands(name)
    IN  IF core # nullptr THEN core ELSE IF known THEN name ELSE nullptr

\* What the resolver of the next link answers: known says whether it has the symbol.
NextProcAddr(name, known) == IF known THEN name ELSE nullptr

\* The flags GetDeviceProcAddr hands to the gated table.
GatingFlags(d) == g_phys_device_map[g_device_map[d].physical_device].extensions_supported

DeviceProcAddr(d, name, known) ==
    LET core == ImplementedDeviceCommands(name)
    IN  IF core # nullptr THEN core
        ELSE LET ext == ImplementedDeviceExtensionCommands(<<GatingFlags(d)>>, name)
             IN  IF ext # nullptr THEN ext ELSE NextProcAddr(name, known)

\* Whether the lookup got as far as the resolver of the next link.
DeviceProcFallsThrough(d, name) ==
    /\ ImplementedDeviceCommands(name) = nullptr
    /\ ImplementedDeviceExtensionCommands(<<GatingFlags(d)>>, name) = nullptr

GetDeviceProcAddr(d, name, known) ==
    /\ ImplementedDeviceCommands(name) # nullptr \/ LiveDevice(d)
    /\ ret' = [Ret("void", DeviceProcFallsThrough(d, name)) EXCEPT
                  !.proc = <<[resolver |-> "GetDeviceProcAddr", handle |-> d, name |-> name,
                              known |-> known, answer |-> DeviceProcAddr(d, name, known)]>>]
    /\ UNCHANGED <<layer, threads, mutex, hist, g_instance_map, g_phys_device_map, g_device_map, g_buffer_map,
                   g_image_map, g_memory_map, g_fence_map, g_ext_mem_fd_map, driver, now>>

\* The tables GetInstanceProcAddr consults once it has the record of the
\* instance, in its order, and the first answer that is not null.
InstanceTables(instance_map_data, name) ==
    <<ImplementedInstanceNewerCoreCommands(instance_map_data, name),
      ImplementedInstanceExtensionCommands(instance_map_data, name),
      ImplementedDeviceCommands(name),
      ImplementedDeviceExtensionCommands(<<>>, name)>>

FirstProc(answers) ==
    IF \E k \in DOMAIN answers : answers[k] # nullptr
    THEN answers[CHOOSE k \in DOMAIN answers :
                    /\ answers[k] # nullptr
                    /\ \A j \in 1..(k - 1) : answers[j] = nullptr]
    ELSE nullptr

InstanceProcFallsThrough(i, name) ==
    /\ ImplementedInstanceCommands(name) = nullptr
    /\ i # VK_NULL_HANDLE
    /\ i \in DOMAIN g_instance_map
    /\ FirstProc(InstanceTables(g_instance_map[i], name)) = nullptr

InstanceProcAddr(i, name, known) ==
    LET core == ImplementedInstanceCommands(name)
    IN  IF core # nullptr THEN core
        ELSE IF i = VK_NULL_HANDLE THEN nullptr
        ELSE IF i \notin DOMAIN g_instance_map THEN nullptr
        ELSE LET own == FirstProc(InstanceTables(g_instance_map[i], name))
             IN  IF own # nullptr THEN own ELSE NextProcAddr(name, known)

GetInstanceProcAddr(i, name, known) ==
    /\ i \in DOMAIN g_instance_map => i \in driver.instances
    /\ ret' = [Ret("void", InstanceProcFallsThrough(i, name)) EXCEPT
                  !.proc = <<[resolver |-> "GetInstanceProcAddr", handle |-> i, name |-> name,
                              known |-> known, answer |-> InstanceProcAddr(i, name, known)]>>]
    /\ UNCHANGED <<layer, threads, mutex, hist, g_instance_map, g_phys_device_map, g_device_map, g_buffer_map,
                   g_image_map, g_memory_map, g_fence_map, g_ext_mem_fd_map, driver, now>>

(***************************************************************************)
(* Queries the layers answer in part themselves.                           *)
(***************************************************************************)
\* uint32_t *pToolCount, held as two 16-bit halves: hi * 2^16 + lo.
HALF_RANGE == 65536
U32(v) == [hi |-> (v \div HALF_RANGE) % HALF_RANGE, lo |-> v % HALF_RANGE]
\* (*pToolCount)-- and (*pToolCount)++ on 32 bits.
U32Dec(u) ==
    IF u.lo > 0 THEN [u EXCEPT !.lo = @ - 1]
    ELSE [hi |-> (u.hi + HALF_RANGE - 1) % HALF_RANGE, lo |-> HALF_RANGE - 1]
U32Inc(u) ==
    IF u.lo < HALF_RANGE - 1 THEN [u EXCEPT !.lo = @ + 1]
    ELSE [hi |-> (u.hi + 1) % HALF_RANGE, lo |-> 0]
U32Less(u, v) == u.hi < v.hi \/ (u.hi = v.hi /\ u.lo < v.lo)

ToolCapacities == 0..MaxCapacity
DrvToolCounts == 0..MaxTools
ToolResults == {"VK_SUCCESS", "VK_INCOMPLETE", "VK_ERROR_OUT_OF_HOST_MEMORY"}

\* GetPhysicalDeviceToolPropertiesEXT of the down-chain, which has n tools: the
\* count alone without an array, otherwise as many records as fit.
DrvToolProperties(count, has_array, n) ==
    IF has_array
    THEN [count |-> IF U32Less(count, U32(n)) THEN count ELSE U32(n),
          written |-> IF U32Less(count, U32(n)) THEN count.lo ELSE n,
          result |-> IF U32Less(count, U32(n)) THEN "VK_INCOMPLETE" ELSE "VK_SUCCESS"]
    ELSE [count |-> U32(n), written |-> 0, result |-> "VK_SUCCESS"]

\* The layer's record goes to index 0 of an array whatever the count says, the
\* count is decremented, the rest of the array goes down only when the count
\* was above 1, and the count coming back is incremented.
PrependToolProperties(c, has_array, n) ==
    LET down_count == IF has_array THEN U32Dec(U32(c)) ELSE U32(c)
        down_array == has_array /\ c > 1
        drv == DrvToolProperties(down_count, down_array, n)
    IN  [capacity |-> c, has_array |-> has_array, prepended |-> TRUE,
         own_written |-> has_array, down_count |-> down_count, down_array |-> down_array,
         down_reported |-> drv.count, slots_written |-> (IF has_array THEN 1 ELSE 0) + drv.written,
         count |-> U32Inc(drv.count), result |-> drv.result]

ForwardToolProperties(c, has_array, n) ==
    LET drv == DrvToolProperties(U32(c), has_array, n)
    IN  [capacity |-> c, has_array |-> has_array, prepended |-> FALSE,
         own_written |-> FALSE, down_count |-> U32(c), down_array |-> has_array,
         down_reported |-> drv.count, slots_written |-> drv.written,
         count |-> drv.count, result |-> drv.result]

\* The simulator assigns the down-chain result of its prepending branch to a
\* variable of that block and returns the outer one, which was never
\* initialised: garbage stands for the value found there.
GetPhysicalDeviceToolPropertiesEXT(p, c, has_array, n, garbage) ==
    /\ KnownPhys(p)
    /\ LET prepend == layer = "memory_tracker" \/ g_phys_device_map[p].layer_enabled
           tool == IF prepend THEN PrependToolProperties(c, has_array, n)
                   ELSE ForwardToolProperties(c, has_array, n)
           result == IF layer = "simulator" /\ prepend THEN garbage ELSE tool.result
       IN  ret' = [Ret(result, TRUE) EXCEPT !.drv = tool.result, !.tool = <<tool>>]
    /\ UNCHANGED <<layer, threads, mutex, hist, g_instance_map, g_phys_device_map, g_device_map, g_buffer_map,
                   g_image_map, g_memory_map, g_fence_map, g_ext_mem_fd_map, driver, now>>

\* own_name: pLayerName is the name of this layer.  The layer has no
\* extensions of its own: util_GetExtensionProperties(0, NULL, ...) reports a
\* count of 0 with VK_SUCCESS.  The simulator returns VK_ERROR_LAYER_NOT_PRESENT
\* whatever that call said.
EnumerateInstanceExtensionProperties(own_name) ==
    /\ ret' = IF own_name
              THEN [Ret(IF layer = "simulator" THEN "VK_ERROR_LAYER_NOT_PRESENT"
                        ELSE "VK_SUCCESS", FALSE) EXCEPT !.drv = "VK_SUCCESS"]
              ELSE Ret("VK_ERROR_LAYER_NOT_PRESENT", FALSE)
    /\ UNCHANGED <<layer, threads, mutex, hist, g_instance_map, g_phys_device_map, g_device_map, g_buffer_map,
                   g_image_map, g_memory_map, g_fence_map, g_ext_mem_fd_map, driver, now>>

(***************************************************************************)
(* The other operations that signal a fence, and the fences of events.     *)
(***************************************************************************)
\* The fence is marked before the call goes down, whatever it then returns.
SignalThenCall(d, f, res) ==
    /\ f # VK_NULL_HANDLE => (LiveFence(d, f) /\ ~hist[f].pending)
    /\ g_fence_map' = IF LayerOn(d) /\ f # VK_NULL_HANDLE
                      THEN [g_fence_map EXCEPT ![f] = SignalFence(@, now)]
                      ELSE g_fence_map
    /\ hist' = IF f # VK_NULL_HANDLE /\ res = "VK_SUCCESS"
               THEN [hist EXCEPT ![f].pending = TRUE] ELSE hist
    /\ ret' = Ret(res, TRUE)
    /\ UNCHANGED <<layer, threads, mutex, g_instance_map, g_phys_device_map, g_device_map, g_buffer_map,
                   g_image_map, g_memory_map, g_ext_mem_fd_map, driver, now>>

AcquireNextImageKHR(d, f, res) ==
    /\ LiveDevice(d)
    /\ SignalThenCall(d, f, res)

\* pAcquireInfo->fence is f.
AcquireNextImage2KHR(d, f, res) ==
    /\ LiveDevice(d)
    /\ SignalThenCall(d, f, res)

QueueBindSparse(d, f, res) ==
    /\ LiveDevice(d)
    /\ SignalThenCall(d, f, res)

\* The body of QueueSubmit, on the submission call of synchronization2.
QueueSubmit2(d, f, budget, res) ==
    /\ LiveDevice(d)
    /\ QueueSubmit(d, f, budget, res)

\* The down-chain creates the fence of the event; the layer records it as an
\* unsignalled fence of the device.
RegisterEvent(d, f, res) ==
    /\ Fresh(f, FenceHandles, DOMAIN driver.fences)
    /\ IF res = "VK_SUCCESS"
       THEN /\ driver' = [driver EXCEPT !.fences = Put(@, f, d)]
            /\ hist' = Put(hist, f, NewHist(TRUE))
       ELSE UNCHANGED <<driver, hist>>
    /\ g_fence_map' = IF LayerOn(d) /\ res = "VK_SUCCESS"
                      THEN Put(g_fence_map, f, NewFence(d, FALSE)) ELSE g_fence_map
    /\ ret' = Ret(res, TRUE)
    /\ UNCHANGED <<layer, threads, mutex, g_instance_map, g_phys_device_map, g_device_map, g_buffer_map,
                   g_image_map, g_memory_map, g_ext_mem_fd_map, now>>

RegisterDeviceEventEXT(d, f, res) ==
    /\ LiveDevice(d)
    /\ RegisterEvent(d, f, res)

RegisterDisplayEventEXT(d, f, res) ==
    /\ LiveDevice(d)
    /\ RegisterEvent(d, f, res)

(***************************************************************************)
(* Calls whose loop over an extension chain is taken one turn at a time.   *)
(***************************************************************************)
\* No call is inside a loop.
Returned == ret.walk = <<>>

\* One more turn of the loop of GetPhysicalDeviceMemoryProperties2: it breaks
\* on the budget structure and otherwise leaves next_chain where it is.
MemoryProperties2Loop ==
    /\ ~Returned
    /\ ret.walk[1].call = "GetPhysicalDeviceMemoryProperties2"
    /\ LET w == ret.walk[1]
       IN  IF FindMemBudget(w.cur) = "hang"
           THEN UNCHANGED <<g_phys_device_map, ret>>
           ELSE /\ g_phys_device_map' =
                      [g_phys_device_map EXCEPT
                          ![w.handle] = WithMemoryProperties2(@, w.cur, DrvBudgetProps(0))]
                /\ ret' = Ret(w.result, TRUE)
    /\ UNCHANGED <<layer, threads, mutex, hist, g_instance_map, g_device_map, g_buffer_map, g_image_map,
                   g_memory_map, g_fence_map, g_ext_mem_fd_map, driver, now>>

PRESENT_FENCE == "VK_STRUCTURE_TYPE_SWAPCHAIN_PRESENT_FENCE_INFO_EXT"
PRESENT_OTHER == "VK_STRUCTURE_TYPE_PRESENT_REGIONS_KHR"

\* The fences a present chain names, null handles left out.
RECURSIVE PresentFences(_)
PresentFences(chain) ==
    IF chain = <<>> THEN {}
    ELSE (Range(Head(chain).pFences) \ {VK_NULL_HANDLE}) \cup PresentFences(Tail(chain))

\* The call down and the entry into the loop over pPresentInfo->pNext.
QueuePresentKHR(d, chain, res) ==
    /\ LiveDevice(d)
    /\ \A f \in PresentFences(chain) : LiveFence(d, f) /\ ~hist[f].pending
    /\ hist' = [f \in DOMAIN hist |->
                   IF f \in PresentFences(chain) /\ res = "VK_SUCCESS"
                   THEN [hist[f] EXCEPT !.pending = TRUE] ELSE hist[f]]
    /\ ret' = IF LayerOn(d) /\ res = "VK_SUCCESS" /\ chain # <<>>
              THEN Walking("QueuePresentKHR", d, chain, res)
              ELSE Ret(res, TRUE)
    /\ UNCHANGED <<layer, threads, mutex, g_instance_map, g_phys_device_map, g_device_map, g_buffer_map,
                   g_image_map, g_memory_map, g_fence_map, g_ext_mem_fd_map, driver, now>>

\* The last statement of the loop body: cur_struct is read from pPresentInfo.
AfterStructure(w) == w.pNext

\* One turn of the loop of QueuePresentKHR on the structure at cur_struct.
QueuePresentLoop ==
    /\ ~Returned
    /\ ret.walk[1].call = "QueuePresentKHR"
    /\ LET w == ret.walk[1]
           st == Head(w.cur)
           listed == IF st.sType = PRESENT_FENCE
                        /\ g_device_map[w.handle].EXT_swapchain_maintenance1
                     THEN Range(st.pFences) \ {VK_NULL_HANDLE} ELSE {}
       IN  /\ g_fence_map' = [f \in DOMAIN g_fence_map |->
                                 IF f \in listed THEN SignalFence(g_fence_map[f], now)
                                 ELSE g_fence_map[f]]
           /\ ret' = IF AfterStructure(w) = <<>> THEN Ret(w.result, TRUE)
                     ELSE [ret EXCEPT !.walk[1].cur = AfterStructure(w)]
    /\ UNCHANGED <<layer, threads, mutex, hist, g_instance_map, g_phys_device_map, g_device_map, g_buffer_map,
                   g_image_map, g_memory_map, g_ext_mem_fd_map, driver, now>>

(***************************************************************************)
(* Application threads.  A call that another thread can overlap is taken   *)
(* in steps: a thread is idle or at a position inside one call, and the    *)
(* steps of different threads interleave.  A mutex is free or held by one  *)
(* thread; a std::unique_lock blocks until the mutex is free and lets go   *)
(* at the end of its scope.                                                *)
(***************************************************************************)
MaxThreads == 2
\* How far below zero a wrapped allocated counter is followed.
MaxWrap == 400
Threads == 1..MaxThreads
NoThread == 0

Idle == [pc |-> "idle"]

\* device_map_data->memory_mutex and fence_mutex, the one instance lock of
\* the process and the device_mutex of a physical device.
MemoryMutex(d) == <<"memory_mutex", d>>
FenceMutex(d) == <<"fence_mutex", d>>
g_instance_mutex == <<"g_instance_mutex", VK_NULL_HANDLE>>
DeviceMutex(p) == <<"device_mutex", p>>

Mutexes ==
    {MemoryMutex(d) : d \in DeviceHandles} \cup {FenceMutex(d) : d \in DeviceHandles}
    \cup {g_instance_mutex} \cup {DeviceMutex(p) : p \in PhysHandles}

\* No thread is inside a call.
Quiet == \A t \in Threads : threads[t] = Idle

\* The handles that threads are in the middle of releasing.
Releasing == {threads[t].freeing : t \in {u \in Threads : "freeing" \in DOMAIN threads[u]}}

\* budget_heap->allocated of the heap of a memory type, as the device sees it.
AllocatedOf(d, type) ==
    LET phys == g_phys_device_map[PhysOf(d)]
    IN  phys.memory_props.memoryHeaps[HeapOfType(phys, type)].allocated

\* budget_heap->allocated = value
SetAllocated(pm, p, type, value) ==
    [pm EXCEPT ![p].memory_props.memoryHeaps[HeapOfType(pm[p], type)].allocated = value]

(***************************************************************************)
(* AllocateMemory of the simulator, in steps.                              *)
(***************************************************************************)
\* Entry and the check against the budget or size of the heap; no lock.
AllocateMemoryCheck(t, d, size, type) ==
    /\ threads[t] = Idle
    /\ LiveDevice(d)
    /\ IF PreflightFails(d, size, type)
       THEN /\ ret' = Ret("VK_ERROR_OUT_OF_DEVICE_MEMORY", FALSE)
            /\ UNCHANGED threads
       ELSE /\ threads' = [threads EXCEPT ![t] =
                              [pc |-> "alloc_call", device |-> d, size |-> size, type |-> type]]
            /\ UNCHANGED ret
    /\ UNCHANGED <<layer, mutex, hist, g_instance_map, g_phys_device_map, g_device_map,
                   g_buffer_map, g_image_map, g_memory_map, g_fence_map, g_ext_mem_fd_map,
                   driver, now>>

\* The call down; on success the record is built and the lock is asked for.
\* The down-chain hands out no handle whose release is still under way above it.
AllocateMemoryCall(t, m, res) ==
    /\ threads[t].pc = "alloc_call"
    /\ Fresh(m, MemoryHandles, (DOMAIN driver.memories) \cup Releasing)
    /\ driver' = IF res = "VK_SUCCESS"
                 THEN [driver EXCEPT !.memories = Put(@, m, threads[t].device)] ELSE driver
    /\ IF LayerOn(threads[t].device) /\ res = "VK_SUCCESS"
       THEN /\ threads' = [threads EXCEPT ![t] =
                              [pc |-> "alloc_lock", device |-> @.device, size |-> @.size,
                               type |-> @.type, creating |-> m]]
            /\ UNCHANGED ret
       ELSE /\ threads' = [threads EXCEPT ![t] = Idle]
            /\ ret' = Ret(res, TRUE)
    /\ UNCHANGED <<layer, mutex, hist, g_instance_map, g_phys_device_map, g_device_map,
                   g_buffer_map, g_image_map, g_memory_map, g_fence_map, g_ext_mem_fd_map, now>>

\* std::unique_lock on memory_mutex, the insertion, and the read of the
\* counter that starts budget_heap->allocated += allocationSize.
AllocateMemoryLock(t) ==
    /\ threads[t].pc = "alloc_lock"
    /\ mutex[MemoryMutex(threads[t].device)] = NoThread
    /\ LET c == threads[t]
       IN  /\ g_memory_map' = Put(g_memory_map, c.creating, NewMemory(c.device, c.size, c.type))
           /\ IF g_phys_device_map[PhysOf(c.device)].memory_percent < 100
              THEN /\ mutex' = [mutex EXCEPT ![MemoryMutex(c.device)] = t]
                   /\ threads' = [threads EXCEPT ![t] =
                                     [pc |-> "alloc_add", device |-> c.device, size |-> c.size,
                                      type |-> c.type, creating |-> c.creating,
                                      read |-> AllocatedOf(c.device, c.type)]]
                   /\ UNCHANGED ret
              ELSE /\ threads' = [threads EXCEPT ![t] = Idle]
                   /\ ret' = Ret("VK_SUCCESS", TRUE)
                   /\ UNCHANGED mutex
    /\ UNCHANGED <<layer, hist, g_instance_map, g_phys_device_map, g_device_map, g_buffer_map,
                   g_image_map, g_fence_map, g_ext_mem_fd_map, driver, now>>

\* The write that ends the +=, the end of the lock's scope, and the return.
AllocateMemoryAdd(t) ==
    /\ threads[t].pc = "alloc_add"
    /\ LET c == threads[t]
       IN  /\ g_phys_device_map' =
                  SetAllocated(g_phys_device_map, PhysOf(c.device), c.type, c.read + c.size)
           /\ mutex' = [mutex EXCEPT ![MemoryMutex(c.device)] =
                                        IF @ = t THEN NoThread ELSE @]
    /\ threads' = [threads EXCEPT ![t] = Idle]
    /\ ret' = Ret("VK_SUCCESS", TRUE)
    /\ UNCHANGED <<layer, hist, g_instance_map, g_device_map, g_buffer_map, g_image_map,
                   g_memory_map, g_fence_map, g_ext_mem_fd_map, driver, now>>

(***************************************************************************)
(* FreeMemory of the simulator, in steps.                                  *)
(***************************************************************************)
\* The call down and the read of the counter that starts the -=; no lock.
\* The application frees a memory once: no other thread is freeing it.
FreeMemoryCall(t, d, m) ==
    /\ threads[t] = Idle
    /\ LiveDevice(d)
    /\ m \in OwnedBy(driver.memories, d)
    /\ LayerOn(d) => /\ m \in DOMAIN g_memory_map
                     /\ AllocatedOf(d, g_memory_map[m].memoryTypeIndex) > 0 - MaxWrap
    /\ driver' = [driver EXCEPT !.memories = Drop(@, m)]
    /\ IF LayerOn(d)
       THEN /\ threads' = [threads EXCEPT ![t] =
                  IF g_phys_device_map[PhysOf(d)].memory_percent < 100
                  THEN [pc |-> "free_sub", device |-> d, freeing |-> m,
                        read |-> AllocatedOf(d, g_memory_map[m].memoryTypeIndex)]
                  ELSE [pc |-> "free_lock", device |-> d, freeing |-> m]]
            /\ UNCHANGED ret
       ELSE /\ UNCHANGED threads
            /\ ret' = Ret("void", TRUE)
    /\ UNCHANGED <<layer, mutex, hist, g_instance_map, g_phys_device_map, g_device_map,
                   g_buffer_map, g_image_map, g_memory_map, g_fence_map, g_ext_mem_fd_map, now>>

\* The write that ends budget_heap->allocated -= allocationSize; no lock.
FreeMemorySub(t) ==
    /\ threads[t].pc = "free_sub"
    /\ LET c == threads[t]
           rec == g_memory_map[c.freeing]
       IN  g_phys_device_map' =
              SetAllocated(g_phys_device_map, PhysOf(c.device), rec.memoryTypeIndex,
                           c.read - rec.allocationSize)
    /\ threads' = [threads EXCEPT ![t] =
                      [pc |-> "free_lock", device |-> @.device, freeing |-> @.freeing]]
    /\ UNCHANGED <<layer, mutex, ret, hist, g_instance_map, g_device_map, g_buffer_map,
                   g_image_map, g_memory_map, g_fence_map, g_ext_mem_fd_map, driver, now>>

\* std::unique_lock on memory_mutex, EraseMemoryMapEntry, and the return.
FreeMemoryLock(t) ==
    /\ threads[t].pc = "free_lock"
    /\ mutex[MemoryMutex(threads[t].device)] = NoThread
    /\ g_memory_map' = EraseMemoryMapEntry(g_memory_map, threads[t].freeing)
    /\ threads' = [threads EXCEPT ![t] = Idle]
    /\ ret' = Ret("void", TRUE)
    /\ UNCHANGED <<layer, mutex, hist, g_instance_map, g_phys_device_map, g_device_map,
                   g_buffer_map, g_image_map, g_fence_map, g_ext_mem_fd_map, driver, now>>

(***************************************************************************)
(* GetFenceStatus of the simulator on a tracked fence in a delay mode, in  *)
(* steps.                                                                  *)
(***************************************************************************)
\* Entry, the lookup of the record and the read of elapsed_count that starts
\* elapsed_count++ (elapsed_count += duration); no lock.
GetFenceStatusRead(t, d, f) ==
    /\ threads[t] = Idle
    /\ LiveDevice(d)
    /\ LiveFence(d, f)
    /\ WithinBounds(f)
    /\ LayerOn(d) /\ Delayed(g_fence_map[f])
    /\ threads' = [threads EXCEPT ![t] =
                      [pc |-> "status_count", device |-> d, fence |-> f,
                       read |-> g_fence_map[f].elapsed_count]]
    /\ UNCHANGED <<layer, mutex, ret, hist, g_instance_map, g_phys_device_map, g_device_map,
                   g_buffer_map, g_image_map, g_memory_map, g_fence_map, g_ext_mem_fd_map,
                   driver, now>>

\* The write of the count, the comparison with delay_count, and the return of
\* VK_NOT_READY or of what the call down answers; no lock.
GetFenceStatusCount(t, res) ==
    /\ threads[t].pc = "status_count"
    /\ threads[t].fence \in DOMAIN g_fence_map
    /\ LET f == threads[t].fence
           counted == StatusAccounting([g_fence_map[f] EXCEPT !.elapsed_count = threads[t].read],
                                       now)
       IN  /\ IF ~counted.signalled \/ counted.delay_count > counted.elapsed_count
              THEN /\ g_fence_map' = [g_fence_map EXCEPT ![f] = counted]
                   /\ ret' = Ret("VK_NOT_READY", FALSE)
              ELSE /\ g_fence_map' = [g_fence_map EXCEPT ![f] =
                                         [counted EXCEPT !.wait_completed = TRUE]]
                   /\ ret' = Ret(res, TRUE)
           /\ hist' = [hist EXCEPT ![f].post = IF hist[f].pending THEN @ + 1 ELSE @]
    /\ threads' = [threads EXCEPT ![t] = Idle]
    /\ UNCHANGED <<layer, mutex, g_instance_map, g_phys_device_map, g_device_map, g_buffer_map,
                   g_image_map, g_memory_map, g_ext_mem_fd_map, driver, now>>

(***************************************************************************)
(* The memory tracker's submission that reaches DumpMemory, in steps.      *)
(***************************************************************************)
\* A thread is free to enter a call that works under the memory_mutex of the
\* device, and that mutex is free.
MayEnter(d) ==
    /\ \E t \in Threads : threads[t] = Idle
    /\ mutex[MemoryMutex(d)] = NoThread

\* The positions of a thread inside DumpMemory.
InDumpMemory(c) == c.pc \in {"dump", "dump_record"}

\* What g_buffer_map[buffer] inserts for a handle that has no record.
NullBuffer == [device |-> VK_NULL_HANDLE, additional_info |-> ZeroAdditionalBuffer]

\* QueueSubmit without a fence succeeds down the chain on a device whose
\* bindings were updated; the budget is refreshed and DumpMemory opens with
\* its two std::unique_locks.
QueueSubmitDump(t, d, budget) ==
    /\ threads[t] = Idle
    /\ LiveDevice(d)
    /\ layer = "memory_tracker"
    /\ g_device_map[d].memory_bindings_updated
    /\ mutex[g_instance_mutex] = NoThread
    /\ mutex[DeviceMutex(PhysOf(d))] = NoThread
    /\ g_phys_device_map' =
          [g_phys_device_map EXCEPT ![PhysOf(d)] = PhysAfterSubmit(@, g_device_map[d], budget)]
    /\ mutex' = [mutex EXCEPT ![g_instance_mutex] = t, ![DeviceMutex(PhysOf(d))] = t]
    /\ threads' = [threads EXCEPT ![t] = [pc |-> "dump", device |-> d]]
    /\ UNCHANGED <<layer, hist, ret, g_instance_map, g_device_map, g_buffer_map, g_image_map,
                   g_memory_map, g_fence_map, g_ext_mem_fd_map, driver, now>>

\* The traversal reaches an entry of the buffers list of a memory record and
\* reads its buffer handle.
DumpMemoryEntry(t, m, i) ==
    /\ threads[t].pc = "dump"
    /\ m \in DOMAIN g_memory_map
    /\ i \in DOMAIN g_memory_map[m].buffers
    /\ threads' = [threads EXCEPT ![t] =
                      [pc |-> "dump_record", device |-> @.device,
                       buffer |-> g_memory_map[m].buffers[i].buffer]]
    /\ UNCHANGED <<layer, mutex, hist, ret, g_instance_map, g_phys_device_map, g_device_map,
                   g_buffer_map, g_image_map, g_memory_map, g_fence_map, g_ext_mem_fd_map,
                   driver, now>>

\* g_buffer_map[buffer.buffer]->memory_reqs: the record of the handle is
\* read.  For a handle without a record the subscript inserts a null pointer
\* and the read through it either stops the process or yields anything.
DumpMemoryRecord(t, outcome) ==
    /\ threads[t].pc = "dump_record"
    /\ LET b == threads[t].buffer
       IN  IF b \in DOMAIN g_buffer_map
           THEN /\ outcome = "read"
                /\ threads' = [threads EXCEPT ![t] = [pc |-> "dump", device |-> @.device]]
                /\ UNCHANGED g_buffer_map
           ELSE /\ outcome \in {"fault", "garbage"}
                /\ g_buffer_map' = Put(g_buffer_map, b, NullBuffer)
                /\ threads' = [threads EXCEPT ![t] =
                                  IF outcome = "fault" THEN [pc |-> "fault", device |-> @.device]
                                  ELSE [pc |-> "dump", device |-> @.device]]
    /\ UNCHANGED <<layer, mutex, hist, ret, g_instance_map, g_phys_device_map, g_device_map,
                   g_image_map, g_memory_map, g_fence_map, g_ext_mem_fd_map, driver, now>>

\* The end of DumpMemory lets go of both locks; memory_bindings_updated is
\* cleared and the submission returns.
DumpMemoryReturn(t) ==
    /\ threads[t].pc = "dump"
    /\ LET d == threads[t].device
       IN  /\ mutex' = [k \in DOMAIN mutex |-> IF mutex[k] = t THEN NoThread ELSE mutex[k]]
           /\ g_device_map' = [g_device_map EXCEPT ![d].memory_bindings_updated = FALSE]
    /\ threads' = [threads EXCEPT ![t] = Idle]
    /\ ret' = Ret("VK_SUCCESS", TRUE)
    /\ UNCHANGED <<layer, hist, g_instance_map, g_phys_device_map, g_buffer_map, g_image_map,
                   g_memory_map, g_fence_map, g_ext_mem_fd_map, driver, now>>

(***************************************************************************)
(* DestroyInstance with devices still alive under the instance, in steps.  *)
(***************************************************************************)
\* The devices whose record names a physical device that the registry pm
\* holds for instance i.
DevicesUnder(dm, pm, i) ==
    {d \in DOMAIN dm : /\ dm[d].physical_device \in DOMAIN pm
                       /\ pm[dm[d].physical_device].instance = i}

\* Entry, with a device under the instance for the inner loop to find.
DestroyInstanceEnter(i) ==
    /\ i \in driver.instances
    /\ i \in DOMAIN g_instance_map
    /\ DevicesUnder(g_device_map, g_phys_device_map, i) # {}
    /\ ret' = Walking("DestroyInstance", i, <<>>, "void")
    /\ UNCHANGED <<layer, threads, mutex, hist, driver, g_instance_map, g_phys_device_map,
                   g_device_map, g_buffer_map, g_image_map, g_memory_map, g_fence_map,
                   g_ext_mem_fd_map, now>>

\* The inner loop reaches device d and calls DestroyDevice on it, which erases
\* the element dev_map_iter points at.  The loop then tests the iterator it
\* did not advance; what that test reads is not defined: the loop goes on
\* over the other devices, takes the iterator for the end of the map, or the
\* process stops (the erased device is looked up again and not found).  When
\* nothing is left to find, both loops end, the physical-device records of
\* the instance and the instance record are erased and the call returns.
DestroyInstanceLoop(d, outcome) ==
    /\ ~Returned
    /\ ret.walk[1].call = "DestroyInstance"
    /\ ret.result = "running"
    /\ d \in DevicesUnder(g_device_map, g_phys_device_map, ret.walk[1].handle)
    /\ outcome \in {"advance", "end", "fault"}
    /\ driver' = [driver EXCEPT !.devices = Drop(@, d),
                                !.buffers = Without(@, d), !.images = Without(@, d),
                                !.memories = Without(@, d), !.fences = Without(@, d)]
    /\ g_ext_mem_fd_map' = EraseExternalMemFdMapEntries(d)
    /\ hist' = [f \in (DOMAIN hist) \ OwnedBy(driver.fences, d) |-> hist[f]]
    /\ LET i == ret.walk[1].handle
           dm == EraseDeviceMapEntry(g_device_map, d)
           pm == IF outcome = "end"
                 THEN Drop(g_phys_device_map, g_device_map[d].physical_device)
                 ELSE g_phys_device_map
       IN  /\ g_device_map' = dm
           /\ IF outcome = "fault"
              THEN /\ ret' = [ret EXCEPT !.result = "fault"]
                   /\ UNCHANGED <<g_phys_device_map, g_instance_map>>
              ELSE IF DevicesUnder(dm, pm, i) # {}
              THEN /\ g_phys_device_map' = pm
                   /\ UNCHANGED <<ret, g_instance_map>>
              ELSE /\ g_phys_device_map' =
                          [q \in {k \in DOMAIN pm : pm[k].instance # i} |-> pm[q]]
                   /\ g_instance_map' = EraseInstanceMapEntry(g_instance_map, i)
                   /\ ret' = Ret("void", FALSE)
    /\ UNCHANGED <<layer, threads, mutex, g_buffer_map, g_image_map, g_memory_map, g_fence_map, now>>

(***************************************************************************)
(* The registries and bindings of both layers.                             *)
(***************************************************************************)
NoDriver ==
    [instances |-> {}, devices |-> EmptyMap, buffers |-> EmptyMap, images |-> EmptyMap,
     memories |-> EmptyMap, fences |-> EmptyMap]

InitWith(layers) ==
    /\ layer \in layers
    /\ g_instance_map = EmptyMap
    /\ g_phys_device_map = EmptyMap
    /\ g_device_map = EmptyMap
    /\ g_buffer_map = EmptyMap
    /\ g_image_map = EmptyMap
    /\ g_memory_map = EmptyMap
    /\ g_fence_map = EmptyMap
    /\ g_ext_mem_fd_map = EmptyMap
    /\ driver = NoDriver
    /\ now = 0
    /\ ret = Ret("void", FALSE)
    /\ hist = EmptyMap
    /\ threads = [t \in Threads |-> Idle]
    /\ mutex = [k \in Mutexes |-> NoThread]

Init == InitWith(Layers)

\* Batches of at most MaxBatch elements.
Batches(S) == UNION {[1..n -> S] : n \in 1..MaxBatch}

Next ==
    \/ \E i \in {1}, percent \in {50, 100}, res \in CreateResults :
          CreateInstance(i, "FENCE_DELAY_NONE", 0, percent, 1, {}, res)
    \/ \E i \in {1} : EnumeratePhysicalDevices(i, "VK_SUCCESS")
    \/ \E p \in PhysHandles, d \in DeviceHandles, res \in CreateResults :
          CreateDevice(p, d, <<>>, 0, res)
    \/ \E d \in DeviceHandles, b \in BufferHandles, res \in CreateResults : CreateBuffer(d, b, <<>>, res)
    \/ \E d \in DeviceHandles, b \in BufferHandles : DestroyBuffer(d, b)
    \/ \E d \in DeviceHandles, img \in ImageHandles, res \in CreateResults : CreateImage(d, img, res)
    \/ \E d \in DeviceHandles, img \in ImageHandles : DestroyImage(d, img)
    \/ \E d \in DeviceHandles, m \in MemoryHandles, res \in BindResults :
          AllocateMemory(d, m, 200, 0, res)
    \/ \E d \in DeviceHandles, m \in MemoryHandles : FreeMemory(d, m)
    \/ \E d \in DeviceHandles, res \in BindResults :
          \E info \in BufferInfos(d) : BindBufferMemory(d, info, res)
    \/ \E d \in DeviceHandles, res \in BindResults :
          \E info \in ImageInfos(d) : BindImageMemory(d, info, res)
    \/ \E d \in DeviceHandles, res \in BindResults :
          \E infos \in Batches(BatchBufferInfos(d)) : BindBufferMemory2(d, infos, res)
    \/ \E d \in DeviceHandles, res \in BindResults :
          \E infos \in Batches(BatchImageInfos(d)) : BindImageMemory2(d, infos, res)

Spec == Init /\ [][Next]_vars

RECURSIVE SumOver(_, _)
SumOver(f, S) ==
    IF S = {} THEN 0
    ELSE LET x == CHOOSE x \in S : TRUE IN f[x] + SumOver(f, S \ {x})

\* How many binding entries name a buffer (an image), over all memory records.
BufferEntries(mm, b) ==
    SumOver([m \in DOMAIN mm |-> Len(SelectSeq(mm[m].buffers, LAMBDA e : e.buffer = b))],
            DOMAIN mm)
ImageEntries(mm, img) ==
    SumOver([m \in DOMAIN mm |-> Len(SelectSeq(mm[m].images, LAMBDA e : e.image = img))],
            DOMAIN mm)

\* The memory an element sequence binds a resource to last, or -1.
RECURSIVE LastMemory(_, _, _)
LastMemory(infos, key, h) ==
    IF infos = <<>> THEN 0 - 1
    ELSE IF infos[Len(infos)][key] = h THEN infos[Len(infos)].memory
    ELSE LastMemory(SubSeq(infos, 1, Len(infos) - 1), key, h)

\* C1: whatever successful binds (single or batched, re-binds, batches naming a
\* resource more than once, binds to a null memory) are interleaved with
\* create, destroy, allocate and free, every buffer and every image is named
\* by at most one binding entry over all memory records; and what a successful
\* bind makes of the memory records in any such state names a resource not at
\* all when the (last) element for it has a null memory.
C1_BindingExclusive ==
    /\ \A b \in BufferHandles : BufferEntries(g_memory_map, b) <= 1
    /\ \A img \in ImageHandles : ImageEntries(g_memory_map, img) <= 1
    /\ \A d \in DOMAIN g_device_map :
          (LiveDevice(d) /\ LayerOn(d)) =>
             /\ \A info \in BufferInfos(d) :
                   (info.buffer # VK_NULL_HANDLE /\ info.memory = VK_NULL_HANDLE)
                   => BufferEntries(BindOneBuffer(g_memory_map, info), info.buffer) = 0
             /\ \A info \in ImageInfos(d) :
                   (info.image # VK_NULL_HANDLE /\ info.memory = VK_NULL_HANDLE)
                   => ImageEntries(BindOneImage(g_memory_map, info), info.image) = 0
             /\ \A infos \in Batches(BatchBufferInfos(d)) : \A b \in BufferHandles :
                   /\ BufferEntries(BindBufferInfos(g_memory_map, infos), b) <= 1
                   /\ LastMemory(infos, "buffer", b) = VK_NULL_HANDLE
                      => BufferEntries(BindBufferInfos(g_memory_map, infos), b) = 0
             /\ \A infos \in Batches(BatchImageInfos(d)) : \A img \in ImageHandles :
                   /\ ImageEntries(BindImageInfos(g_memory_map, infos), img) <= 1
                   /\ LastMemory(infos, "image", img) = VK_NULL_HANDLE
                      => ImageEntries(BindImageInfos(g_memory_map, infos), img) = 0

\* Two buffers share one memory record's list while another memory record and a
\* bound image exist, after a successful bind.
C1_Witness ==
    /\ \E m \in DOMAIN g_memory_map :
          /\ Len(g_memory_map[m].buffers) = 2
          /\ g_memory_map[m].buffers[1].buffer # g_memory_map[m].buffers[2].buffer
          /\ g_memory_map[m].buffers[2].offset = 64
    /\ Cardinality(DOMAIN g_memory_map) = 2
    /\ \E m \in DOMAIN g_memory_map : g_memory_map[m].images # <<>>
    /\ \E d \in DOMAIN g_device_map : g_device_map[d].memory_bindings_updated

\* C10: destroying a tracked buffer (image) removes its record and every
\* binding entry naming it, in every memory record, and changes no other
\* record; freeing a memory removes that memory's record, with its lists, and
\* leaves every buffer, image and other memory record as it was.  (A step that
\* takes a buffer, image or memory out of the down-chain is the destroy or free
\* of that object.)
C10_EraseFrame ==
    [][/\ \A b \in (DOMAIN driver.buffers) \ (DOMAIN driver'.buffers) :
             b \in DOMAIN g_buffer_map
             => /\ DOMAIN g_buffer_map' = (DOMAIN g_buffer_map) \ {b}
                /\ \A k \in DOMAIN g_buffer_map' : g_buffer_map'[k] = g_buffer_map[k]
                /\ DOMAIN g_memory_map' = DOMAIN g_memory_map
                /\ \A m \in DOMAIN g_memory_map :
                      /\ \A i \in DOMAIN g_memory_map'[m].buffers :
                            g_memory_map'[m].buffers[i].buffer # b
                      /\ g_memory_map'[m] =
                            [g_memory_map[m] EXCEPT
                                !.buffers = SelectSeq(@, LAMBDA e : e.buffer # b)]
                /\ UNCHANGED <<g_image_map, g_device_map, g_phys_device_map, g_instance_map,
                               g_fence_map, g_ext_mem_fd_map>>
       /\ \A img \in (DOMAIN driver.images) \ (DOMAIN driver'.images) :
             img \in DOMAIN g_image_map
             => /\ DOMAIN g_image_map' = (DOMAIN g_image_map) \ {img}
                /\ \A k \in DOMAIN g_image_map' : g_image_map'[k] = g_image_map[k]
                /\ DOMAIN g_memory_map' = DOMAIN g_memory_map
                /\ \A m \in DOMAIN g_memory_map :
                      /\ \A i \in DOMAIN g_memory_map'[m].images :
                            g_memory_map'[m].images[i].image # img
                      /\ g_memory_map'[m] =
                            [g_memory_map[m] EXCEPT
                                !.images = SelectSeq(@, LAMBDA e : e.image # img)]
                /\ UNCHANGED <<g_buffer_map, g_device_map, g_phys_device_map, g_instance_map,
                               g_fence_map, g_ext_mem_fd_map>>
       /\ \A m \in (DOMAIN driver.memories) \ (DOMAIN driver'.memories) :
             m \in DOMAIN g_memory_map
             => /\ DOMAIN g_memory_map' = (DOMAIN g_memory_map) \ {m}
                /\ \A k \in DOMAIN g_memory_map' : g_memory_map'[k] = g_memory_map[k]
                /\ UNCHANGED <<g_buffer_map, g_image_map, g_device_map, g_instance_map,
                               g_fence_map, g_ext_mem_fd_map>>]_vars

\* The first buffer has been destroyed while it was bound beside the second:
\* the second is still bound, in a list of its own, and the last call was a
\* destroy or a free.
C10_Witness ==
    /\ 1 \notin DOMAIN g_buffer_map
    /\ 2 \in DOMAIN g_buffer_map
    /\ \E m \in DOMAIN g_memory_map :
          /\ Len(g_memory_map[m].buffers) = 1
          /\ g_memory_map[m].buffers[1].buffer = 2
          /\ g_memory_map[m].images # <<>>
    /\ ret.result = "void"

(***************************************************************************)
(* Device lifetime: what destroying a device leaves behind.                *)
(***************************************************************************)
NextDevice ==
    \/ \E i \in {1}, percent \in {50, 100} :
          CreateInstance(i, "FENCE_DELAY_NONE", 0, percent, 1, {}, "VK_SUCCESS")
    \/ \E i \in {1} : EnumeratePhysicalDevices(i, "VK_SUCCESS")
    \/ \E p \in PhysHandles, d \in DeviceHandles : CreateDevice(p, d, <<>>, 0, "VK_SUCCESS")
    \/ \E d \in DeviceHandles : DestroyDevice(d)
    \/ \E d \in DeviceHandles, fd \in FdHandles, res \in CreateResults :
          GetMemoryFdPropertiesKHR(d, fd, 1, res)
    \/ \E d \in DeviceHandles, b \in {1} : CreateBuffer(d, b, <<>>, "VK_SUCCESS")
    \/ \E d \in DeviceHandles, img \in {1} : CreateImage(d, img, "VK_SUCCESS")
    \/ \E d \in DeviceHandles, m \in {1} : AllocateMemory(d, m, 200, 0, "VK_SUCCESS")
    \/ \E d \in DeviceHandles, f \in {1} : CreateFence(d, f, FALSE, "VK_SUCCESS")
    \/ \E d \in DeviceHandles, f \in {1} : DestroyFence(d, f)

SpecDevice == Init /\ [][NextDevice]_vars

\* C9: when DestroyDevice(D) returns, no buffer, image, memory, fence or
\* external-memory record owned by D remains in any registry, and the records
\* of the other devices are as they were.  (A step that takes a device out of
\* the down-chain is the destroy of that device.)
C9_DestroyDeviceCascade ==
    [][\A d \in (DOMAIN driver.devices) \ (DOMAIN driver'.devices) :
          /\ \A b \in DOMAIN g_buffer_map' : g_buffer_map'[b].device # d
          /\ \A img \in DOMAIN g_image_map' : g_image_map'[img].device # d
          /\ \A m \in DOMAIN g_memory_map' : g_memory_map'[m].device # d
          /\ \A f \in DOMAIN g_fence_map' : g_fence_map'[f].device # d
          /\ \A fd \in DOMAIN g_ext_mem_fd_map' : g_ext_mem_fd_map'[fd].device # d
          /\ \A b \in DOMAIN g_buffer_map :
                g_buffer_map[b].device # d
                => b \in DOMAIN g_buffer_map' /\ g_buffer_map'[b] = g_buffer_map[b]
          /\ \A img \in DOMAIN g_image_map :
                g_image_map[img].device # d
                => img \in DOMAIN g_image_map' /\ g_image_map'[img] = g_image_map[img]
          /\ \A m \in DOMAIN g_memory_map :
                g_memory_map[m].device # d
                => m \in DOMAIN g_memory_map' /\ g_memory_map'[m] = g_memory_map[m]
          /\ \A f \in DOMAIN g_fence_map :
                g_fence_map[f].device # d
                => f \in DOMAIN g_fence_map' /\ g_fence_map'[f] = g_fence_map[f]
          /\ \A fd \in DOMAIN g_ext_mem_fd_map :
                g_ext_mem_fd_map[fd].device # d
                => fd \in DOMAIN g_ext_mem_fd_map'
                   /\ g_ext_mem_fd_map'[fd] = g_ext_mem_fd_map[fd]
          /\ \A k \in DOMAIN g_device_map' : g_device_map'[k] = g_device_map[k]]_vars

(***************************************************************************)
(* Admission of allocations by the simulator.                              *)
(***************************************************************************)
InitSimulator == InitWith({"simulator"})

NextAlloc ==
    \/ \E i \in {1}, percent \in {50, 100, 0, 101}, minor \in {0, 1} :
          CreateInstance(i, "FENCE_DELAY_NONE", 0, percent, minor, {}, "VK_SUCCESS")
    \/ \E i \in {1} : EnumeratePhysicalDevices(i, "VK_SUCCESS")
    \/ \E p \in PhysHandles, names \in SUBSET {MEM_BUDGET} :
          EnumerateDeviceExtensionProperties(p, names, "VK_SUCCESS")
    \/ \E p \in PhysHandles : GetPhysicalDeviceMemoryProperties(p)
    \/ \E p \in PhysHandles, chain \in {<<>>, <<"MEMORY_BUDGET_PROPERTIES_EXT">>},
          budget \in DrvBudgets : GetPhysicalDeviceMemoryProperties2(p, chain, budget)
    \/ \E p \in PhysHandles, d \in DeviceHandles, names \in {<<>>, <<MEM_BUDGET>>},
          budget \in DrvBudgets : CreateDevice(p, d, names, budget, "VK_SUCCESS")
    \/ \E d \in DeviceHandles, m \in MemoryHandles, size \in AllocSizes, type \in TypeIndexes,
          res \in BindResults : AllocateMemory(d, m, size, type, res)
    \/ \E d \in DeviceHandles, m \in MemoryHandles : FreeMemory(d, m)

SpecAlloc == InitSimulator /\ [][NextAlloc]_vars

\* The sizes of the memory records whose type lies on a heap, summed.
LiveOnHeap(mm, heap) ==
    SumOver([m \in DOMAIN mm |->
                IF DrvTypeHeap[mm[m].memoryTypeIndex] = heap THEN mm[m].allocationSize ELSE 0],
            DOMAIN mm)

\* C2: with memory_percent p < 100 the admission limit of a heap is p percent
\* of its real size, whether or not the driver reports a budget; AllocateMemory
\* of n bytes returns VK_ERROR_OUT_OF_DEVICE_MEMORY of its own, without calling
\* down, exactly when the live tracked allocations of the heap plus n exceed
\* that limit, and forwards the call otherwise.
C2_AdmissionLimit ==
    [][\A d \in DeviceHandles, m \in MemoryHandles, size \in AllocSizes, type \in TypeIndexes,
          res \in BindResults :
          (/\ AllocateMemory(d, m, size, type, res)
           /\ LayerOn(d)
           /\ g_phys_device_map[PhysOf(d)].memory_percent < 100)
          => LET percent == g_phys_device_map[PhysOf(d)].memory_percent
                 heap == DrvTypeHeap[type]
                 limit == (DrvHeapSize[heap] * percent) \div 100
             IN  IF LiveOnHeap(g_memory_map, heap) + size > limit
                 THEN ret'.result = "VK_ERROR_OUT_OF_DEVICE_MEMORY" /\ ~ret'.down
                 ELSE ret'.result = res /\ ret'.down]_vars

\* C3: when the check before the call turns an allocation away (the layer is
\* enabled for the device, the percent is below 100, and the heap's counter
\* plus the size exceeds the budget if one is recorded, else the heap size),
\* AllocateMemory returns VK_ERROR_OUT_OF_DEVICE_MEMORY, does not call down,
\* creates no memory record and leaves every heap's counter as it was.
C3_RejectedAllocation ==
    [][\A d \in DeviceHandles, m \in MemoryHandles, size \in AllocSizes, type \in TypeIndexes,
          res \in BindResults :
          (/\ AllocateMemory(d, m, size, type, res)
           /\ g_device_map[d].layer_enabled
           /\ g_phys_device_map[g_device_map[d].physical_device].memory_percent < 100
           /\ LET props == g_phys_device_map[g_device_map[d].physical_device].memory_props
                  heap == props.memoryHeaps[props.memoryTypes[type]]
              IN  heap.allocated + size > (IF heap.budget > 0 THEN heap.budget ELSE heap.size))
          => /\ ret'.result = "VK_ERROR_OUT_OF_DEVICE_MEMORY"
             /\ ~ret'.down
             /\ UNCHANGED <<g_memory_map, g_phys_device_map, driver>>]_vars

\* An allocation has just been turned away while memory records exist.
C3_Witness ==
    /\ ret.result = "VK_ERROR_OUT_OF_DEVICE_MEMORY"
    /\ ~ret.down
    /\ g_memory_map # EmptyMap
    /\ \E p \in DOMAIN g_phys_device_map :
          \E h \in HeapIndexes : g_phys_device_map[p].memory_props.memoryHeaps[h].allocated > 0

DelayCounts == {3}

NextStatus ==
    \/ \E i \in {1}, type \in DelayTypes, count \in DelayCounts :
          CreateInstance(i, type, count, 100, 1, {}, "VK_SUCCESS")
    \/ \E i \in {1} : EnumeratePhysicalDevices(i, "VK_SUCCESS")
    \/ \E p \in PhysHandles : CreateDevice(p, 1, <<>>, 0, "VK_SUCCESS")
    \/ \E f \in FenceHandles, bit \in BOOLEAN : CreateFence(1, f, bit, "VK_SUCCESS")
    \/ \E fences \in Batches(FenceHandles), res \in FenceResults : ResetFences(1, fences, res)
    \/ \E f \in FenceHandles, res \in StatusResults : GetFenceStatus(1, f, res)
    \/ \E f \in FenceHandles \cup {VK_NULL_HANDLE}, res \in FenceResults :
          QueueSubmit(1, f, 0, res)

SpecStatus == InitSimulator /\ [][NextStatus]_vars

\* The failure codes the down-chain returns in the model.
FailureCodes ==
    {"VK_ERROR_OUT_OF_HOST_MEMORY", "VK_ERROR_OUT_OF_DEVICE_MEMORY", "VK_ERROR_DEVICE_LOST"}

\* C12: a call whose down-chain call returns a failure code leaves all shadow
\* state, the registries with their binding lists, fence flags and counters,
\* flags and allocated counters, as it was before the call.
C12_FailureLeavesState ==
    [][(ret'.down /\ ret'.result \in FailureCodes)
       => UNCHANGED <<g_instance_map, g_phys_device_map, g_device_map, g_buffer_map,
                      g_image_map, g_memory_map, g_fence_map, g_ext_mem_fd_map>>]_vars

\* C5: in num_fail_waits mode with fence_delay_count = N, whatever was asked
\* of the fence before it was signalled, the status queries numbered 1 to N-1
\* from the moment of the signal return VK_NOT_READY without a call down, and
\* query N and the later ones return the down-chain status.
C5_FailCountFromSignal ==
    [][\A d \in DeviceHandles, f \in FenceHandles, res \in StatusResults :
          (/\ GetFenceStatus(d, f, res)
           /\ LayerOn(d)
           /\ g_fence_map[f].delay_type = "FENCE_DELAY_NUM_FAIL_WAITS"
           /\ g_fence_map[f].signalled
           /\ hist[f].pending)
          => IF hist[f].post + 1 < g_fence_map[f].delay_count
             THEN ret'.result = "VK_NOT_READY" /\ ~ret'.down
             ELSE ret'.result = res /\ ret'.down]_vars

\* C6: ResetFences leaves every tracked fence it names unsignalled, with
\* wait_started and wait_completed false and elapsed_count 0; and the first
\* status query after the next signal of a reset fence reports VK_NOT_READY
\* when the configured fail count is at least 2.
C6_ResetRestartsDelay ==
    [][/\ \A d \in DeviceHandles, fences \in Batches(FenceHandles), res \in FenceResults :
             (ResetFences(d, fences, res) /\ LayerOn(d))
             => \A f \in Range(fences) :
                   f \in DOMAIN g_fence_map
                   => /\ ~g_fence_map'[f].signalled
                      /\ ~g_fence_map'[f].wait_started
                      /\ ~g_fence_map'[f].wait_completed
                      /\ g_fence_map'[f].elapsed_count = 0
       /\ \A d \in DeviceHandles, f \in FenceHandles, res \in StatusResults :
             (/\ GetFenceStatus(d, f, res)
              /\ LayerOn(d)
              /\ g_fence_map[f].delay_type = "FENCE_DELAY_NUM_FAIL_WAITS"
              /\ g_fence_map[f].delay_count >= 2
              /\ g_fence_map[f].signalled
              /\ hist[f].reset /\ hist[f].pending /\ hist[f].post = 0)
             => ret'.result = "VK_NOT_READY" /\ ~ret'.down]_vars


NextWait ==
    \/ \E i \in {1}, type \in DelayTypes, count \in DelayCounts :
          CreateInstance(i, type, count, 100, 1, {}, "VK_SUCCESS")
    \/ \E i \in {1} : EnumeratePhysicalDevices(i, "VK_SUCCESS")
    \/ \E p \in PhysHandles : CreateDevice(p, 1, <<>>, 0, "VK_SUCCESS")
    \/ \E f \in FenceHandles, bit \in BOOLEAN : CreateFence(1, f, bit, "VK_SUCCESS")
    \/ \E f \in FenceHandles : QueueSubmit(1, f, 0, "VK_SUCCESS")
    \/ \E fences \in Batches(FenceHandles), waitAll \in BOOLEAN, timeout \in Timeouts,
          res \in WaitResults : WaitForFences(1, fences, waitAll, timeout, res)
    \/ Tick

SpecWait == InitSimulator /\ [][NextWait]_vars

\* A signalled fence that is short of its delay even when the timeout of the
\* wait is allowed for: in fail-count mode the timeout is below one second and
\* the count is below the configured one, in the millisecond modes the elapsed
\* milliseconds and those of the timeout together stay below the delay.
StillDelayed(fr, timeout) ==
    /\ fr.signalled
    /\ Delayed(fr)
    /\ IF fr.delay_type = "FENCE_DELAY_NUM_FAIL_WAITS"
       THEN timeout < SECOND_NS /\ fr.elapsed_count < fr.delay_count
       ELSE fr.elapsed_count + (timeout \div 1000000) < fr.delay_count

\* The lists a wait may name on a device that delays fences.
DelayedWaits ==
    {w \in DeviceHandles \X Batches(FenceHandles) :
        LiveDevice(w[1]) /\ LayerOn(w[1]) /\ Waitable(w[1], w[2])}

\* C7 as it is stated: with waitAll true, in every delay mode and for every
\* timeout, a listed fence that is signalled and whose elapsed count, brought
\* up to date by the call, is below its delay makes the wait return VK_TIMEOUT
\* without a call down and without any sleep.
C7_WaitAllAnyTimeout ==
    \A w \in DelayedWaits : \A timeout \in Timeouts :
       (\E i \in DOMAIN w[2] :
           LET fr == WaitAccounting(g_fence_map[w[2][i]], now, timeout)
           IN  fr.signalled /\ Delayed(fr) /\ fr.elapsed_count < fr.delay_count)
       => LET out == WaitOutcome(g_fence_map, now, w[2], TRUE, timeout, "VK_SUCCESS")
          IN  out.ret.result = "VK_TIMEOUT" /\ ~out.ret.down /\ out.ret.slept = 0

\* C7: with waitAll true the wait returns VK_TIMEOUT without a call down
\* whenever a listed fence is still short of its delay with the timeout allowed
\* for; it has not slept when that fence is the first of the list, when the
\* timeout is below one millisecond or when the mode is fail-count.  With a
\* timeout of one second or more the fail-count mode sleeps and forwards.
C7_WaitAllTimeout ==
    \A w \in DelayedWaits : \A timeout \in Timeouts :
       LET out == WaitOutcome(g_fence_map, now, w[2], TRUE, timeout, "VK_SUCCESS")
           fail_waits == g_device_map[w[1]].fence_delay_type = "FENCE_DELAY_NUM_FAIL_WAITS"
       IN  /\ (\E i \in DOMAIN w[2] : StillDelayed(out.fm[w[2][i]], timeout))
              => /\ out.ret.result = "VK_TIMEOUT"
                 /\ ~out.ret.down
                 /\ (fail_waits \/ timeout < 1000000 \/ StillDelayed(out.fm[w[2][1]], timeout))
                       => out.ret.slept = 0
           /\ (fail_waits /\ timeout >= SECOND_NS)
              => /\ out.ret.down
                 /\ out.ret.fwd = w[2]
                 /\ out.ret.result = "VK_SUCCESS"

\* A wait for all of two fences has returned VK_TIMEOUT with no call down and
\* no sleep: one of the fences has completed its delay, the other is signalled
\* and still short of it.
C7_Witness ==
    /\ ret.all /\ ret.result = "VK_TIMEOUT" /\ ~ret.down /\ ret.slept = 0
    /\ \E f, g \in DOMAIN g_fence_map :
          /\ f # g
          /\ hist[f].waited /\ hist[g].waited
          /\ g_fence_map[f].wait_completed
          /\ g_fence_map[g].signalled /\ g_fence_map[g].wait_started
          /\ ~g_fence_map[g].wait_completed
          /\ g_fence_map[g].elapsed_count < g_fence_map[g].delay_count

NextLife ==
    \/ \E i \in {1}, percent \in {50, 100} :
          CreateInstance(i, "FENCE_DELAY_NONE", 0, percent, 1, {}, "VK_SUCCESS")
    \/ \E i \in {1} : EnumeratePhysicalDevices(i, "VK_SUCCESS")
    \/ \E i \in {1} : DestroyInstance(i)
    \/ \E p \in PhysHandles : CreateDevice(p, 1, <<>>, 0, "VK_SUCCESS")
    \/ DestroyDevice(1)
    \/ CreateBuffer(1, 1, <<>>, "VK_SUCCESS")
    \/ DestroyBuffer(1, 1)
    \/ CreateImage(1, 1, "VK_SUCCESS")
    \/ DestroyImage(1, 1)
    \/ \E m \in MemoryHandles : AllocateMemory(1, m, 200, 0, "VK_SUCCESS")
    \/ \E m \in MemoryHandles : FreeMemory(1, m)
    \/ \E info \in BufferInfos(1) : BindBufferMemory(1, info, "VK_SUCCESS")
    \/ \E info \in ImageInfos(1) : BindImageMemory(1, info, "VK_SUCCESS")
    \/ CreateFence(1, 1, FALSE, "VK_SUCCESS")
    \/ DestroyFence(1, 1)

SpecLife == Init /\ [][NextLife]_vars

\* C11: in every registry the erase of a handle that has no record (never
\* inserted, or erased before) changes no registry and no binding list, and
\* erasing a handle twice leaves what erasing it once leaves.
C11_EraseIdempotent ==
    /\ \A i \in InstanceHandles \cup {VK_NULL_HANDLE} :
          LET once == EraseInstanceMapEntry(g_instance_map, i)
          IN  /\ EraseInstanceMapEntry(once, i) = once
              /\ i \notin DOMAIN g_instance_map => once = g_instance_map
    /\ \A d \in DeviceHandles \cup {VK_NULL_HANDLE} :
          LET once == EraseDeviceMapEntry(g_device_map, d)
          IN  /\ EraseDeviceMapEntry(once, d) = once
              /\ d \notin DOMAIN g_device_map => once = g_device_map
    /\ \A f \in FenceHandles \cup {VK_NULL_HANDLE} :
          LET once == EraseFenceMapEntry(g_fence_map, f)
          IN  /\ EraseFenceMapEntry(once, f) = once
              /\ f \notin DOMAIN g_fence_map => once = g_fence_map
    /\ \A m \in MemoryHandles \cup {VK_NULL_HANDLE} :
          LET once == EraseMemoryMapEntry(g_memory_map, m)
          IN  /\ EraseMemoryMapEntry(once, m) = once
              /\ m \notin DOMAIN g_memory_map => once = g_memory_map
    /\ \A b \in BufferHandles \cup {VK_NULL_HANDLE} :
          LET once == ErasedBuffer(g_buffer_map, g_memory_map, b)
          IN  /\ ErasedBuffer(once.buffers, once.memories, b) = once
              /\ b \notin DOMAIN g_buffer_map
                 => once = [buffers |-> g_buffer_map, memories |-> g_memory_map]
    /\ \A img \in ImageHandles \cup {VK_NULL_HANDLE} :
          LET once == ErasedImage(g_image_map, g_memory_map, img)
          IN  /\ ErasedImage(once.images, once.memories, img) = once
              /\ img \notin DOMAIN g_image_map
                 => once = [images |-> g_image_map, memories |-> g_memory_map]

\* The first memory and the buffer have been erased; the second memory keeps
\* its record, with the image in its list, and the fence keeps its own.
C11_Witness ==
    /\ 1 \notin DOMAIN g_memory_map
    /\ 2 \in DOMAIN g_memory_map
    /\ g_memory_map[2].images # <<>>
    /\ 1 \in DOMAIN driver.devices
    /\ 1 \notin DOMAIN driver.buffers
    /\ 1 \notin DOMAIN g_buffer_map
    /\ 1 \in DOMAIN g_fence_map
    /\ ret.result = "void"

(***************************************************************************)
(* Symbol lookup and device creation against the recorded flags.           *)
(***************************************************************************)
ExtensionLists == {<<>>, <<SYNC2>>, <<MEM_BUDGET>>, <<SYNC2, MEM_BUDGET>>}

NextProc ==
    \/ \E i \in {1}, percent \in {50, 100}, minor \in {0, 1},
          extensions \in SUBSET {PHYS_DEV_PROPS2} :
          CreateInstance(i, "FENCE_DELAY_NONE", 0, percent, minor, extensions, "VK_SUCCESS")
    \/ \E i \in {1} : EnumeratePhysicalDevices(i, "VK_SUCCESS")
    \/ \E p \in PhysHandles, res \in CreateResults :
          EnumerateDeviceExtensionProperties(p, DrvExtensions[p], res)
    \/ \E p \in PhysHandles, d \in DeviceHandles, names \in ExtensionLists, res \in CreateResults :
          CreateDevice(p, d, names, 0, res)
    \/ \E d \in DeviceHandles : DestroyDevice(d)
    \/ \E i \in {1} : DestroyInstance(i)
    \/ \E d \in DeviceHandles, name \in Symbols, known \in BOOLEAN :
          GetDeviceProcAddr(d, name, known)
    \/ \E i \in {1} \cup {VK_NULL_HANDLE}, name \in Symbols, known \in BOOLEAN :
          GetInstanceProcAddr(i, name, known)

SpecProc == Init /\ [][NextProc]_vars

\* The gated device symbols of the model: the flag of the group and the
\* function of the layer behind the symbol.
GatedDeviceSymbols ==
    [vkBindBufferMemory2 |-> [flag |-> "core_1_1", proc |-> "BindBufferMemory2"],
     vkQueueSubmit2KHR |-> [flag |-> "KHR_sync2", proc |-> "QueueSubmit2"]]

\* The last call was GetDeviceProcAddr for a gated symbol on a live device.
GatedDeviceLookup ==
    /\ ret.proc # <<>>
    /\ ret.proc[1].resolver = "GetDeviceProcAddr"
    /\ ret.proc[1].name \in DOMAIN GatedDeviceSymbols
    /\ LiveDevice(ret.proc[1].handle)

C14_OwnEnabledFlags ==
    (GatedDeviceLookup /\ ret.proc[1].name = "vkQueueSubmit2KHR")
    => LET q == ret.proc[1]
       IN  /\ q.answer = "QueueSubmit2" => g_device_map[q.handle].KHR_sync2
           /\ ~g_device_map[q.handle].KHR_sync2
              => ret.down /\ q.answer = NextProcAddr(q.name, q.known)

\* The device flags recorded under an instance: those of its physical device,
\* null while none is recorded.
RecordedFlags(i) ==
    LET of_instance == {p \in DOMAIN g_phys_device_map : g_phys_device_map[p].instance = i}
    IN  IF of_instance = {} THEN <<>>
        ELSE <<g_phys_device_map[CHOOSE p \in of_instance : TRUE].extensions_supported>>

\* C15: GetInstanceProcAddr on a recorded instance returns the first answer
\* that is not null, in this order, of: the core instance table, the
\* version-gated instance table, the extension-gated instance table, the core
\* device table, the gated device table consulted with the recorded flags, and
\* the resolver of the next link.
C15_LookupOrder ==
    (/\ ret.proc # <<>>
     /\ ret.proc[1].resolver = "GetInstanceProcAddr"
     /\ ret.proc[1].handle \in DOMAIN g_instance_map)
    => LET q == ret.proc[1]
           instance_map_data == g_instance_map[q.handle]
       IN  q.answer =
              FirstProc(<<ImplementedInstanceCommands(q.name),
                          ImplementedInstanceNewerCoreCommands(instance_map_data, q.name),
                          ImplementedInstanceExtensionCommands(instance_map_data, q.name),
                          ImplementedDeviceCommands(q.name),
                          ImplementedDeviceExtensionCommands(RecordedFlags(q.handle), q.name),
                          NextProcAddr(q.name, q.known)>>)

\* The results the simulator makes up without calling down.
InjectedResults == {"VK_ERROR_OUT_OF_DEVICE_MEMORY", "VK_NOT_READY", "VK_TIMEOUT"}

\* C17: every call of an entry point of either layer invokes its down-chain
\* counterpart, the injected results of the simulator excepted; instance
\* destruction is forwarded like every other call.
C17_ForwardedOnce ==
    [][ret'.proc = <<>> => (ret'.down \/ ret'.result \in InjectedResults)]_vars

(***************************************************************************)
(* The simulator left at its defaults: no fence delay, memory_percent 100  *)
(* (given as 100 or clamped to it).                                        *)
(***************************************************************************)
NextDefault ==
    \/ \E i \in {1}, count \in {0, 3}, percent \in {100, 101}, minor \in {0, 1},
          res \in CreateResults :
          CreateInstance(i, "FENCE_DELAY_NONE", count, percent, minor, {}, res)
    \/ \E i \in {1} : EnumeratePhysicalDevices(i, "VK_SUCCESS")
    \/ \E i \in {1} : DestroyInstance(i)
    \/ \E p \in PhysHandles : EnumerateDeviceExtensionProperties(p, DrvExtensions[p], "VK_SUCCESS")
    \/ \E p \in PhysHandles : GetPhysicalDeviceMemoryProperties(p)
    \/ \E p \in PhysHandles, budget \in DrvBudgets :
          GetPhysicalDeviceMemoryProperties2(p, <<"MEMORY_BUDGET_PROPERTIES_EXT">>, budget)
    \/ \E p \in PhysHandles, names \in {<<>>, <<SYNC2>>}, res \in CreateResults :
          CreateDevice(p, 1, names, 0, res)
    \/ DestroyDevice(1)
    \/ \E res \in CreateResults : CreateBuffer(1, 1, <<>>, res)
    \/ DestroyBuffer(1, 1)
    \/ \E size \in AllocSizes \cup {2000}, res \in BindResults : AllocateMemory(1, 1, size, 0, res)
    \/ FreeMemory(1, 1)
    \/ \E info \in BufferInfos(1), res \in BindResults : BindBufferMemory(1, info, res)
    \/ \E bit \in BOOLEAN, res \in CreateResults : CreateFence(1, 1, bit, res)
    \/ DestroyFence(1, 1)
    \/ \E res \in FenceResults : QueueSubmit(1, 1, 0, res)
    \/ \E res \in FenceResults : ResetFences(1, <<1>>, res)
    \/ \E res \in StatusResults : GetFenceStatus(1, 1, res)
    \/ \E waitAll \in BOOLEAN, timeout \in Timeouts, res \in WaitResults :
          WaitForFences(1, <<1>>, waitAll, timeout, res)

SpecDefault == InitSimulator /\ [][NextDefault]_vars

\* C16: at the defaults every call of the simulator is the down-chain call: no
\* buffer, image, memory or fence record is made, every call is forwarded and
\* returns the down-chain result (so none is a simulated NOT_READY, TIMEOUT or
\* OUT_OF_DEVICE_MEMORY), nothing sleeps, the device extension list goes down
\* as the application gave it and the heap sizes are left as reported.
C16_DefaultPassthrough ==
    [][/\ g_buffer_map' = EmptyMap /\ g_image_map' = EmptyMap
       /\ g_memory_map' = EmptyMap /\ g_fence_map' = EmptyMap
       /\ ret'.down /\ ret'.result = ret'.drv
       /\ ret'.slept = 0 /\ now' = now
       /\ ret'.create # <<>> => ret'.create[1].local_create = ret'.create[1].pCreateInfo
       /\ \A p \in DOMAIN g_phys_device_map' :
             g_phys_device_map'[p].memory_props = ZeroMemoryProps]_vars

(***************************************************************************)
(* Tool properties and instance extensions.                                *)
(***************************************************************************)
NextQuery ==
    \/ \E i \in {1}, percent \in {50, 100} :
          CreateInstance(i, "FENCE_DELAY_NONE", 0, percent, 1, {}, "VK_SUCCESS")
    \/ \E i \in {1} : EnumeratePhysicalDevices(i, "VK_SUCCESS")
    \/ \E i \in {1} : DestroyInstance(i)
    \/ \E p \in PhysHandles, res \in CreateResults :
          EnumerateDeviceExtensionProperties(p, DrvExtensions[p], res)
    \/ \E p \in PhysHandles, c \in ToolCapacities, has_array \in BOOLEAN, n \in DrvToolCounts,
          garbage \in ToolResults : GetPhysicalDeviceToolPropertiesEXT(p, c, has_array, n, garbage)
    \/ \E own_name \in BOOLEAN : EnumerateInstanceExtensionProperties(own_name)

SpecQuery == Init /\ [][NextQuery]_vars

\* C18: an entry point that calls down the chain returns exactly the result
\* code that call produced, on success and on failure.  (The injected results
\* of the simulator come without a down-chain call.)
C18_ResultUnchanged == ret.down => ret.result = ret.drv

\* C20: when a layer prepends its record to the tool properties, for every
\* capacity c and with or without an array: its record is written at index 0
\* only when c >= 1, with an array the down-chain gets the remaining c - 1
\* slots, the count returned is the count the down-chain reported plus one,
\* nothing is written beyond the c slots and the count handed down never wraps
\* below zero.
C20_ToolCount ==
    (ret.tool # <<>> /\ ret.tool[1].prepended)
    => LET t == ret.tool[1]
       IN  /\ t.own_written => t.capacity >= 1
           /\ t.has_array => t.slots_written <= t.capacity
           /\ ~U32Less(U32(t.capacity), t.down_count)
           /\ (t.has_array /\ t.capacity >= 1) => t.down_count = U32(t.capacity - 1)
           /\ t.count = U32Inc(t.down_reported)

\* The last call was CreateDevice of the memory tracker.
TrackerCreateDevice == layer = "memory_tracker" /\ ret.create # <<>>

\* How often a name occurs in a list.
Occurrences(names, name) == Cardinality({k \in DOMAIN names : names[k] = name})

C21_FailCountExact ==
    [][\A d \in DeviceHandles, f \in FenceHandles, res \in StatusResults :
          (/\ GetFenceStatus(d, f, res)
           /\ LayerOn(d)
           /\ g_fence_map[f].delay_type = "FENCE_DELAY_NUM_FAIL_WAITS"
           /\ g_fence_map[f].signalled
           /\ hist[f].pending
           /\ g_fence_map[f].elapsed_count = hist[f].post)
          => IF hist[f].post < g_fence_map[f].delay_count
             THEN ret'.result = "VK_NOT_READY" /\ ~ret'.down
             ELSE ret'.result = res /\ ret'.down]_vars

(***************************************************************************)
(* Buffers created with every creation chain of up to MaxChain structures, *)
(* under both layers.                                                      *)
(***************************************************************************)
MaxChain == 3

BufferChains == UNION {[1..n -> BufferStructures] : n \in 0..MaxChain}

NextBuffer ==
    \/ \E i \in {1}, percent \in {50, 100} :
          CreateInstance(i, "FENCE_DELAY_NONE", 0, percent, 1, {}, "VK_SUCCESS")
    \/ \E i \in {1} : EnumeratePhysicalDevices(i, "VK_SUCCESS")
    \/ \E p \in PhysHandles : CreateDevice(p, 1, <<>>, 0, "VK_SUCCESS")
    \/ \E b \in BufferHandles, chain \in BufferChains, res \in CreateResults :
          CreateBuffer(1, b, chain, res)
    \/ \E b \in BufferHandles : DestroyBuffer(1, b)

SpecBuffer == Init /\ [][NextBuffer]_vars

\* C22: for every creation chain of a buffer created with success on a
\* tracking device, each validity flag of the stored additional-info is set
\* if and only if the structure it stands for occurs in the chain, structures
\* of other types wherever they sit neither end the walk nor fail the call,
\* and the value stored for a structure that occurs once (handle-type bits,
\* opaque capture address, device address) is exactly the one supplied, while
\* the value of an absent structure stays zero.
C22_BufferChainFlags ==
    [][\A b \in BufferHandles, chain \in BufferChains :
          (CreateBuffer(1, b, chain, "VK_SUCCESS") /\ LayerOn(1))
          => LET info == g_buffer_map'[b].additional_info
                 At(t) == {i \in DOMAIN chain : chain[i].sType = t}
                 Agrees(flag, t, stored) ==
                    /\ flag \in info.flags <=> At(t) # {}
                    /\ At(t) = {} => stored = 0
                    /\ Cardinality(At(t)) = 1 => \A i \in At(t) : stored = chain[i].value
             IN  /\ ret'.result = "VK_SUCCESS"
                 /\ Agrees("ADD_BUFFER_VALID_EXTERNAL_MEM_HANDLE_FLAGS", EXTERNAL_MEMORY,
                           info.external_memory_handle_flags)
                 /\ Agrees("ADD_BUFFER_VALID_OPAQUE_CAPTURE", OPAQUE_CAPTURE,
                           info.opaque_capture_address)
                 /\ Agrees("ADD_BUFFER_VALID_DEVICE_ADDRESS", DEVICE_ADDRESS,
                           info.device_address)]_vars

\* A buffer of the memory tracker whose record holds the handle-type bits 2
\* and the external-memory flag alone.
C22_Witness ==
    /\ layer = "memory_tracker"
    /\ ret.result = "VK_SUCCESS" /\ ret.down
    /\ \E b \in DOMAIN g_buffer_map :
          /\ g_buffer_map[b].additional_info.flags = {"ADD_BUFFER_VALID_EXTERNAL_MEM_HANDLE_FLAGS"}
          /\ g_buffer_map[b].additional_info.external_memory_handle_flags = 2

(***************************************************************************)
(* Every operation that signals a fence, with the clock running.           *)
(***************************************************************************)
NextSignal ==
    \/ \E i \in {1}, type \in DelayTypes, count \in DelayCounts :
          CreateInstance(i, type, count, 100, 1, {}, "VK_SUCCESS")
    \/ \E i \in {1} : EnumeratePhysicalDevices(i, "VK_SUCCESS")
    \/ \E p \in PhysHandles : CreateDevice(p, 1, <<>>, 0, "VK_SUCCESS")
    \/ \E f \in FenceHandles, bit \in BOOLEAN : CreateFence(1, f, bit, "VK_SUCCESS")
    \/ \E f \in FenceHandles : DestroyFence(1, f)
    \/ \E f \in FenceHandles \cup {VK_NULL_HANDLE}, res \in FenceResults :
          QueueSubmit(1, f, 0, res)
    \/ \E f \in FenceHandles \cup {VK_NULL_HANDLE}, res \in FenceResults :
          QueueSubmit2(1, f, 0, res)
    \/ \E f \in FenceHandles \cup {VK_NULL_HANDLE}, res \in FenceResults :
          AcquireNextImageKHR(1, f, res)
    \/ \E f \in FenceHandles \cup {VK_NULL_HANDLE}, res \in FenceResults :
          AcquireNextImage2KHR(1, f, res)
    \/ \E f \in FenceHandles \cup {VK_NULL_HANDLE}, res \in FenceResults :
          QueueBindSparse(1, f, res)
    \/ Tick

SpecSignal == InitSimulator /\ [][NextSignal]_vars

\* C23: the signalled flag of a tracked fence goes from false to true only in
\* a call whose down-chain call has returned VK_SUCCESS, in ms_from_trigger
\* mode the start timestamp is then the time of that call, and a signalling
\* call that fails down-chain leaves every fence record as it was.
C23_SignalAfterSuccess ==
    [][/\ \A f \in (DOMAIN g_fence_map) \cap (DOMAIN g_fence_map') :
             (~g_fence_map[f].signalled /\ g_fence_map'[f].signalled)
             => /\ ret'.down /\ ret'.result = "VK_SUCCESS"
                /\ g_fence_map[f].delay_type = "FENCE_DELAY_MS_FROM_TRIGGER"
                   => g_fence_map'[f].start_time = now
       /\ (ret'.down /\ ret'.result \in FailureCodes) => g_fence_map' = g_fence_map]_vars

(***************************************************************************)
(* The fences of device and display events, queried for their status.      *)
(***************************************************************************)
NextEvent ==
    \/ \E i \in {1}, type \in DelayTypes, count \in DelayCounts :
          CreateInstance(i, type, count, 100, 1, {}, "VK_SUCCESS")
    \/ \E i \in {1} : EnumeratePhysicalDevices(i, "VK_SUCCESS")
    \/ \E p \in PhysHandles : CreateDevice(p, 1, <<>>, 0, "VK_SUCCESS")
    \/ \E f \in FenceHandles, res \in CreateResults : RegisterDeviceEventEXT(1, f, res)
    \/ \E f \in FenceHandles, res \in CreateResults : RegisterDisplayEventEXT(1, f, res)
    \/ \E f \in FenceHandles, res \in StatusResults : GetFenceStatus(1, f, res)
    \/ \E f \in FenceHandles : DestroyFence(1, f)
    \/ Tick

SpecEvent == InitSimulator /\ [][NextEvent]_vars

\* C24: a status query of a tracked fence in a delay mode, the fence of a
\* registered device or display event included, is answered with the
\* simulated VK_NOT_READY exactly while the elapsed count, this query counted,
\* is below fence_delay_count; once the count is reached the query goes down
\* and the down-chain status is returned.
C24_NotReadyOnlyWhileShort ==
    [][\A f \in FenceHandles, res \in StatusResults :
          (GetFenceStatus(1, f, res) /\ LayerOn(1) /\ Delayed(g_fence_map[f]))
          => IF g_fence_map'[f].elapsed_count < g_fence_map'[f].delay_count
             THEN ret'.result = "VK_NOT_READY" /\ ~ret'.down
             ELSE ret'.result = res /\ ret'.down]_vars

(***************************************************************************)
(* Presentation with every extension chain of up to MaxPresentChain        *)
(* structures.  A thread that is inside QueuePresentKHR makes no other     *)
(* call; its loop is scheduled for as long as it has a turn to take.       *)
(***************************************************************************)
MaxPresentChain == 2

PresentStructures ==
    [sType : {PRESENT_FENCE}, pFences : {<<1>>, <<VK_NULL_HANDLE, 2>>}]
    \cup [sType : {PRESENT_OTHER}, pFences : {<<>>}]

PresentChains == UNION {[1..n -> PresentStructures] : n \in 0..MaxPresentChain}

NextPresent ==
    \/ \E i \in {1}, type \in DelayTypes, count \in DelayCounts :
          Returned /\ CreateInstance(i, type, count, 100, 1, {}, "VK_SUCCESS")
    \/ \E i \in {1} : Returned /\ EnumeratePhysicalDevices(i, "VK_SUCCESS")
    \/ \E p \in PhysHandles, names \in {<<>>, <<SWAPCHAIN_MAINT1>>} :
          Returned /\ CreateDevice(p, 1, names, 0, "VK_SUCCESS")
    \/ \E f \in FenceHandles : Returned /\ CreateFence(1, f, FALSE, "VK_SUCCESS")
    \/ \E fences \in Batches(FenceHandles) : Returned /\ ResetFences(1, fences, "VK_SUCCESS")
    \/ \E chain \in PresentChains, res \in FenceResults :
          Returned /\ QueuePresentKHR(1, chain, res)
    \/ QueuePresentLoop

SpecPresent == InitSimulator /\ [][NextPresent]_vars

FairSpecPresent == SpecPresent /\ WF_vars(QueuePresentLoop)

\* C25: every call of QueuePresentKHR returns, whatever finite extension
\* chain the present info carries: a call that has entered the loop over the
\* chain leaves it.
C25_PresentReturns == (~Returned) ~> Returned

(***************************************************************************)
(* The memory queries of both layers with every extension chain of up to   *)
(* MaxMemoryChain structures on the query structure.                       *)
(***************************************************************************)
MaxMemoryChain == 2

MEMORY_BUDGET == "MEMORY_BUDGET_PROPERTIES_EXT"
MEMORY_OTHER == "MEMORY_PRIORITY_FEATURES_EXT"

MemoryChains == UNION {[1..n -> {MEMORY_BUDGET, MEMORY_OTHER}] : n \in 0..MaxMemoryChain}

NextBudget ==
    \/ \E i \in {1}, percent \in {50, 100}, minor \in {0, 1} :
          Returned /\ CreateInstance(i, "FENCE_DELAY_NONE", 0, percent, minor, {}, "VK_SUCCESS")
    \/ \E i \in {1} : Returned /\ EnumeratePhysicalDevices(i, "VK_SUCCESS")
    \/ \E p \in PhysHandles, names \in SUBSET {MEM_BUDGET} :
          Returned /\ EnumerateDeviceExtensionProperties(p, names, "VK_SUCCESS")
    \/ \E p \in PhysHandles : Returned /\ GetPhysicalDeviceMemoryProperties(p)
    \/ \E p \in PhysHandles, chain \in MemoryChains, budget \in DrvBudgets :
          Returned /\ GetPhysicalDeviceMemoryProperties2(p, chain, budget)
    \/ \E p \in PhysHandles, d \in DeviceHandles, names \in {<<>>, <<MEM_BUDGET>>} :
          Returned /\ CreateDevice(p, d, names, 0, "VK_SUCCESS")
    \/ \E d \in DeviceHandles : Returned /\ DestroyDevice(d)
    \/ MemoryProperties2Loop

SpecBudget == Init /\ [][NextBudget]_vars

FairSpecBudget == SpecBudget /\ WF_vars(MemoryProperties2Loop)

\* C26: every call of GetPhysicalDeviceMemoryProperties2 returns, whatever
\* finite extension chain hangs on the query structure and wherever in it the
\* budget structure sits: a call that has entered the loop over the chain
\* leaves it.
C26_MemoryQueryReturns == (~Returned) ~> Returned

(***************************************************************************)
(* Two threads allocating and freeing on one device of the simulator with  *)
(* memory_percent 50, their steps interleaved.                             *)
(***************************************************************************)
NextRace ==
    \/ \E i \in {1} :
          CreateInstance(i, "FENCE_DELAY_NONE", 0, 50, 1, {}, "VK_SUCCESS")
    \/ \E i \in {1} : EnumeratePhysicalDevices(i, "VK_SUCCESS")
    \/ \E p \in PhysHandles : CreateDevice(p, 1, <<>>, 0, "VK_SUCCESS")
    \/ \E t \in Threads : AllocateMemoryCheck(t, 1, 200, 0)
    \/ \E t \in Threads, m \in MemoryHandles, res \in BindResults : AllocateMemoryCall(t, m, res)
    \/ \E t \in Threads : AllocateMemoryLock(t)
    \/ \E t \in Threads : AllocateMemoryAdd(t)
    \/ \E t \in Threads, m \in MemoryHandles : FreeMemoryCall(t, 1, m)
    \/ \E t \in Threads : FreeMemorySub(t)
    \/ \E t \in Threads : FreeMemoryLock(t)

SpecRace == InitSimulator /\ [][NextRace]_vars

\* C27: a thread that is between the read and the write of a heap's allocated
\* counter, in AllocateMemory or in FreeMemory, holds the memory mutex of its
\* device; and no update of the counter is lost: whenever no thread is inside
\* a call, each heap's counter is the sum of the sizes of the live records.
C27_CounterUnderMutex ==
    /\ \A t \in Threads :
          threads[t].pc \in {"alloc_add", "free_sub"}
          => mutex[MemoryMutex(threads[t].device)] = t
    /\ Quiet
       => \A p \in DOMAIN g_phys_device_map :
             g_phys_device_map[p].memory_percent < 100
             => \A h \in HeapIndexes :
                   g_phys_device_map[p].memory_props.memoryHeaps[h].allocated
                      = LiveOnHeap(g_memory_map, h)

(***************************************************************************)
(* Two threads allocating on one heap of the simulator, memory_percent 50. *)
(***************************************************************************)
NextAdmit ==
    \/ \E i \in {1} :
          CreateInstance(i, "FENCE_DELAY_NONE", 0, 50, 1, {}, "VK_SUCCESS")
    \/ \E i \in {1} : EnumeratePhysicalDevices(i, "VK_SUCCESS")
    \/ \E p \in PhysHandles : CreateDevice(p, 1, <<>>, 0, "VK_SUCCESS")
    \/ \E t \in Threads, size \in AllocSizes \cup {100} : AllocateMemoryCheck(t, 1, size, 0)
    \/ \E t \in Threads, m \in MemoryHandles, res \in BindResults : AllocateMemoryCall(t, m, res)
    \/ \E t \in Threads : AllocateMemoryLock(t)
    \/ \E t \in Threads : AllocateMemoryAdd(t)

SpecAdmit == InitSimulator /\ [][NextAdmit]_vars

\* C28: under every interleaving of concurrent AllocateMemory calls on one
\* heap, with memory_percent below 100 and no budget recorded, the sizes of
\* the allocations admitted to the heap never add up to more than the
\* admission limit, the scaled size of the heap.
C28_AdmittedWithinLimit ==
    \A p \in DOMAIN g_phys_device_map :
       (g_phys_device_map[p].layer_enabled /\ g_phys_device_map[p].memory_percent < 100)
       => \A h \in HeapIndexes :
             LET heap == g_phys_device_map[p].memory_props.memoryHeaps[h]
             IN  (heap.size > 0 /\ heap.budget = 0)
                 => LiveOnHeap(g_memory_map, h) <= heap.size

(***************************************************************************)
(* Two threads asking for the status of the fences of one device.          *)
(***************************************************************************)
NextPoll ==
    \/ \E i \in {1}, type \in DelayTypes \ {"FENCE_DELAY_NONE"}, count \in DelayCounts :
          CreateInstance(i, type, count, 100, 1, {}, "VK_SUCCESS")
    \/ \E i \in {1} : EnumeratePhysicalDevices(i, "VK_SUCCESS")
    \/ \E p \in PhysHandles : CreateDevice(p, 1, <<>>, 0, "VK_SUCCESS")
    \/ \E f \in FenceHandles, bit \in BOOLEAN : CreateFence(1, f, bit, "VK_SUCCESS")
    \/ \E f \in FenceHandles : QueueSubmit(1, f, 0, "VK_SUCCESS")
    \/ \E t \in Threads, f \in FenceHandles : GetFenceStatusRead(t, 1, f)
    \/ \E t \in Threads, res \in StatusResults : GetFenceStatusCount(t, res)

SpecPoll == InitSimulator /\ [][NextPoll]_vars

\* C29: a thread that is between the read and the write of a fence record's
\* elapsed_count holds the fence mutex of its device; and k status queries
\* of one fence in fail-count mode, concurrent or not, advance elapsed_count
\* by k: when no thread is inside a call the count of a fence is not below
\* the number of queries made since its signal.
C29_FenceUnderMutex ==
    /\ \A t \in Threads :
          threads[t].pc = "status_count" => mutex[FenceMutex(threads[t].device)] = t
    /\ Quiet
       => \A f \in DOMAIN g_fence_map :
             g_fence_map[f].delay_type = "FENCE_DELAY_NUM_FAIL_WAITS"
             => g_fence_map[f].elapsed_count >= hist[f].post

(***************************************************************************)
(* The memory tracker: a submission that dumps the tables while the other  *)
(* thread creates, binds and destroys buffers and memory.                  *)
(***************************************************************************)
InitTracker == InitWith({"memory_tracker"})

NextDump ==
    \/ \E i \in {1} : CreateInstance(i, "FENCE_DELAY_NONE", 0, 100, 1, {}, "VK_SUCCESS")
    \/ \E i \in {1} : EnumeratePhysicalDevices(i, "VK_SUCCESS")
    \/ \E p \in PhysHandles : CreateDevice(p, 1, <<>>, 0, "VK_SUCCESS")
    \/ \E b \in BufferHandles : MayEnter(1) /\ CreateBuffer(1, b, <<>>, "VK_SUCCESS")
    \/ \E b \in BufferHandles : MayEnter(1) /\ DestroyBuffer(1, b)
    \/ \E m \in MemoryHandles : MayEnter(1) /\ AllocateMemory(1, m, 200, 0, "VK_SUCCESS")
    \/ \E m \in MemoryHandles : MayEnter(1) /\ FreeMemory(1, m)
    \/ \E info \in BatchBufferInfos(1) : MayEnter(1) /\ BindBufferMemory(1, info, "VK_SUCCESS")
    \/ \E t \in Threads : QueueSubmitDump(t, 1, 0)
    \/ \E t \in Threads, m \in MemoryHandles, i \in 1..MaxBuffers : DumpMemoryEntry(t, m, i)
    \/ \E t \in Threads, outcome \in {"read", "fault", "garbage"} : DumpMemoryRecord(t, outcome)
    \/ \E t \in Threads : DumpMemoryReturn(t)

SpecDump == InitTracker /\ [][NextDump]_vars

\* C30: while a thread is inside DumpMemory, holding the instance lock and
\* the lock of the physical device, no step of another thread inserts,
\* erases or re-binds an entry of the memory, buffer and image tables, and
\* the buffer whose record the dump is about to read has a record.
C30_DumpExcludesMutators ==
    /\ [](\A t \in Threads :
             threads[t].pc = "dump_record" => threads[t].buffer \in DOMAIN g_buffer_map)
    /\ [][(\E t \in Threads : InDumpMemory(threads[t]) /\ InDumpMemory(threads'[t]))
          => UNCHANGED <<g_memory_map, g_buffer_map, g_image_map>>]_vars

(***************************************************************************)
(* Two instances; an instance is destroyed while devices live under it.    *)
(***************************************************************************)
NextDestroy ==
    \/ \E i \in InstanceHandles, percent \in {50, 100} :
          Returned /\ CreateInstance(i, "FENCE_DELAY_NONE", 0, percent, 1, {}, "VK_SUCCESS")
    \/ \E i \in InstanceHandles : Returned /\ EnumeratePhysicalDevices(i, "VK_SUCCESS")
    \/ \E d \in DeviceHandles : Returned /\ CreateDevice(1, d, <<>>, 0, "VK_SUCCESS")
    \/ \E d \in DeviceHandles : Returned /\ DestroyDevice(d)
    \/ \E fd \in FdHandles : Returned /\ GetMemoryFdPropertiesKHR(1, fd, 1, "VK_SUCCESS")
    \/ \E i \in InstanceHandles : Returned /\ DestroyInstance(i)
    \/ \E i \in InstanceHandles : Returned /\ DestroyInstanceEnter(i)
    \/ \E d \in DeviceHandles, outcome \in {"advance", "end", "fault"} : DestroyInstanceLoop(d, outcome)

SpecDestroy == Init /\ [][NextDestroy]_vars

\* The loop is not held up: a turn that can be taken is taken.
FairSpecDestroy ==
    SpecDestroy /\ WF_vars(\E d \in DeviceHandles, outcome \in {"advance", "end", "fault"} :
                              DestroyInstanceLoop(d, outcome))

\* C31: a DestroyInstance that found devices under its instance returns; when
\* it returns the registries hold no record of the instance, no record of a
\* physical device of the instance and no record of a device on a physical
\* device that has no record, the down-chain holds none of the devices that
\* were under the instance, and the records of other instances are as they
\* were.
C31_DestroyInstanceCascades ==
    /\ (~Returned) ~> Returned
    /\ [][(~Returned /\ ret.walk[1].call = "DestroyInstance" /\ ret'.walk = <<>>)
          => LET i == ret.walk[1].handle
             IN  /\ i \notin DOMAIN g_instance_map'
                 /\ \A p \in DOMAIN g_phys_device_map' : g_phys_device_map'[p].instance # i
                 /\ \A d \in DOMAIN g_device_map' :
                       g_device_map'[d].physical_device \in DOMAIN g_phys_device_map'
                 /\ \A d \in DOMAIN driver'.devices : d \in DOMAIN g_device_map'
                 /\ \A j \in (DOMAIN g_instance_map) \ {i} :
                       j \in DOMAIN g_instance_map' /\ g_instance_map'[j] = g_instance_map[j]]_vars

(***************************************************************************)
(* The simulator with a fence delay: submissions, status queries, waits    *)
(* and resets on a fence while the clock advances.                         *)
(***************************************************************************)
NextTime ==
    \/ \E type \in DelayTypes \ {"FENCE_DELAY_NONE"}, count \in DelayCounts :
          CreateInstance(1, type, count, 100, 1, {}, "VK_SUCCESS")
    \/ EnumeratePhysicalDevices(1, "VK_SUCCESS")
    \/ CreateDevice(1, 1, <<>>, 0, "VK_SUCCESS")
    \/ CreateFence(1, 1, FALSE, "VK_SUCCESS")
    \/ QueueSubmit(1, 1, 0, "VK_SUCCESS")
    \/ ResetFences(1, <<1>>, "VK_SUCCESS")
    \/ \E res \in StatusResults : GetFenceStatus(1, 1, res)
    \/ \E waitAll \in BOOLEAN, timeout \in Timeouts :
          WaitForFences(1, <<1>>, waitAll, timeout, "VK_SUCCESS")
    \/ Tick

SpecTime == InitSimulator /\ [][NextTime]_vars

\* C32: a signalled fence whose record says that a query or wait has passed
\* the delay and was forwarded (wait_completed, cleared by ResetFences only)
\* is forwarded by a status query made now, and by a wait made now with any
\* timeout, which does not sleep.
C32_ForwardedStaysForwarded ==
    \A f \in DOMAIN g_fence_map :
       LET fr == g_fence_map[f]
       IN  (Delayed(fr) /\ fr.signalled /\ fr.wait_completed)
           => /\ LET counted == StatusAccounting(fr, now)
                 IN  counted.delay_count <= counted.elapsed_count
              /\ \A timeout \in Timeouts, waitAll \in BOOLEAN :
                    LET out == WaitOutcome(g_fence_map, now, <<f>>, waitAll, timeout,
                                           "VK_SUCCESS").ret
                    IN  out.down /\ out.slept = 0

\* The timeout WaitForFences hands to the down-chain wait.
DownTimeout(timeout) == timeout

\* C33: whatever wait the application makes now on distinct fences of the
\* device, with whatever timeout, the milliseconds the layer sleeps in it,
\* all fences taken together, do not exceed the timeout, and neither does the
\* timeout handed down the chain.
C33_SleepWithinTimeout ==
    \A fences \in Batches(DOMAIN g_fence_map), waitAll \in BOOLEAN, timeout \in Timeouts :
       (/\ 1 \in DOMAIN g_device_map
        /\ Waitable(1, fences)
        /\ \A i, j \in DOMAIN fences : i # j => fences[i] # fences[j])
       => LET out == WaitOutcome(g_fence_map, now, fences, waitAll, timeout, "VK_SUCCESS")
          IN  /\ out.ret.slept * 1000000 <= timeout
              /\ DownTimeout(timeout) <= timeout

\* C34: in ms_from_trigger mode the elapsed value that a status query or a
\* wait made now on a signalled fence compares with the delay is the time
\* from the signal of the fence to now, however many queries came before.
C34_ElapsedIsWallClock ==
    \A f \in DOMAIN g_fence_map :
       LET fr == g_fence_map[f]
       IN  (fr.delay_type = "FENCE_DELAY_MS_FROM_TRIGGER" /\ fr.signalled)
           => /\ StatusAccounting(fr, now).elapsed_count = now - fr.start_time
              /\ \A timeout \in Timeouts :
                    WaitAccounting(fr, now, timeout).elapsed_count = now - fr.start_time

\* C35: in ms_from_first_query mode no step starts the clock of a fence that
\* is not signalled; the step that starts the clock of a signalled fence
\* stores the time of that query; and the elapsed value that a status query
\* or a wait made now compares with the delay, once the clock of a signalled
\* fence runs, is the time from the stored instant to now.
C35_ClockFromFirstQuery ==
    /\ [](\A f \in DOMAIN g_fence_map :
             LET fr == g_fence_map[f]
             IN  (/\ fr.delay_type = "FENCE_DELAY_MS_FROM_FIRST_QUERY"
                  /\ fr.signalled /\ fr.wait_started)
                 => /\ StatusAccounting(fr, now).elapsed_count = now - fr.start_time
                    /\ \A timeout \in Timeouts :
                          WaitAccounting(fr, now, timeout).elapsed_count = now - fr.start_time)
    /\ [][\A f \in (DOMAIN g_fence_map) \cap (DOMAIN g_fence_map') :
             (/\ g_fence_map[f].delay_type = "FENCE_DELAY_MS_FROM_FIRST_QUERY"
              /\ ~g_fence_map[f].wait_started
              /\ g_fence_map'[f].wait_started)
             => /\ g_fence_map[f].signalled
                /\ g_fence_map'[f].start_time = now]_vars

\* C36: in fail-count mode a wait made now with a timeout of one second or
\* more, on any list of fences and with either waitAll, is handed down the
\* chain with the whole list and returns what the down-chain wait returns;
\* it has slept 10 ms times the configured count for every listed fence that
\* is signalled, and it leaves elapsed_count of every fence as it was.
C36_LongWaitSleepsAndForwards ==
    \A w \in DelayedWaits : \A timeout \in Timeouts, waitAll \in BOOLEAN, res \in WaitResults :
       (/\ g_device_map[w[1]].fence_delay_type = "FENCE_DELAY_NUM_FAIL_WAITS"
        /\ timeout >= SECOND_NS)
       => LET out == WaitOutcome(g_fence_map, now, w[2], waitAll, timeout, res)
              Signalled(f) == g_fence_map[f].signalled
          IN  /\ out.ret.down
              /\ out.ret.result = res
              /\ out.ret.fwd = w[2]
              /\ out.ret.slept =
                    10 * g_device_map[w[1]].fence_delay_count * Len(SelectSeq(w[2], Signalled))
              /\ \A f \in DOMAIN g_fence_map :
                    out.fm[f].elapsed_count = g_fence_map[f].elapsed_count

\* A wait in fail-count mode has slept for two signalled fences and was
\* handed down; neither fence has been counted.
C36_Witness ==
    /\ ret.down /\ Len(ret.fwd) = 2 /\ ret.slept = 60
    /\ \A i \in DOMAIN ret.fwd :
          /\ ret.fwd[i] \in DOMAIN g_fence_map
          /\ g_fence_map[ret.fwd[i]].delay_type = "FENCE_DELAY_NUM_FAIL_WAITS"
          /\ g_fence_map[ret.fwd[i]].signalled
          /\ g_fence_map[ret.fwd[i]].wait_completed
          /\ g_fence_map[ret.fwd[i]].elapsed_count = 0

(***************************************************************************)
(* One fence is submitted and then polled with GetFenceStatus while the    *)
(* clock advances; the driver reports the fence complete.                  *)
(***************************************************************************)
NextPatient ==
    \/ \E type \in DelayTypes \ {"FENCE_DELAY_NONE"}, count \in DelayCounts :
          CreateInstance(1, type, count, 100, 1, {}, "VK_SUCCESS")
    \/ EnumeratePhysicalDevices(1, "VK_SUCCESS")
    \/ CreateDevice(1, 1, <<>>, 0, "VK_SUCCESS")
    \/ CreateFence(1, 1, FALSE, "VK_SUCCESS")
    \/ QueueSubmit(1, 1, 0, "VK_SUCCESS")
    \/ GetFenceStatus(1, 1, "VK_SUCCESS")
    \/ Tick

SpecPatient == InitSimulator /\ [][NextPatient]_vars

\* The application keeps polling and the clock keeps running.
FairSpecPatient ==
    SpecPatient /\ WF_vars(GetFenceStatus(1, 1, "VK_SUCCESS")) /\ WF_vars(Tick)

DumpLocksReversed(p) == <<DeviceMutex(p), g_instance_mutex>>
DumpLocks(p) == <<g_instance_mutex, DeviceMutex(p)>>

\* The position of a thread that goes on to take the mutexes of want and
\* then works at position after.
AtLock(call, i, p, d, want, after, item) ==
    [pc |-> "lock", call |-> call, instance |-> i, phys |-> p, device |-> d,
     want |-> want, after |-> after, item |-> item]

Busy(t) == threads[t] # Idle

\* A thread is destroying instance i.
Destroying(i) ==
    \E u \in Threads : Busy(u) /\ threads[u].call = "DestroyInstance" /\ threads[u].instance = i

\* The mutexes a thread holds.
Held(t) == {m \in DOMAIN mutex : mutex[m] = t}

\* The end of the scope of every std::unique_lock of the thread.
Unlocked(t) == [m \in DOMAIN mutex |-> IF mutex[m] = t THEN NoThread ELSE mutex[m]]

\* The constructor of std::unique_lock: waits until the mutex is free, then
\* owns it.
UniqueLock(t) ==
    /\ Busy(t)
    /\ threads[t].pc = "lock"
    /\ mutex[Head(threads[t].want)] = NoThread
    /\ mutex' = [mutex EXCEPT ![Head(threads[t].want)] = t]
    /\ threads' = [threads EXCEPT ![t] =
                      IF Len(@.want) = 1
                      THEN [@ EXCEPT !.pc = threads[t].after, !.want = <<>>]
                      ELSE [@ EXCEPT !.want = Tail(threads[t].want)]]
    /\ UNCHANGED <<layer, hist, ret, g_instance_map, g_phys_device_map, g_device_map,
                   g_buffer_map, g_image_map, g_memory_map, g_fence_map, g_ext_mem_fd_map,
                   driver, now>>

\* CreateInstance: the call down succeeds, the settings are read, and the
\* thread arrives at the lock that guards the insertion.
CreateInstanceCall(t, i, percent) ==
    /\ threads[t] = Idle
    /\ Fresh(i, InstanceHandles, driver.instances)
    /\ driver' = [driver EXCEPT !.instances = @ \cup {i}]
    /\ threads' = [threads EXCEPT ![t] =
                      AtLock("CreateInstance", i, VK_NULL_HANDLE, VK_NULL_HANDLE,
                             <<g_instance_mutex>>, "instance_insert",
                             InstanceSettings("FENCE_DELAY_NONE", 0, percent, 1, {}))]
    /\ UNCHANGED <<layer, mutex, hist, ret, g_instance_map, g_phys_device_map, g_device_map,
                   g_buffer_map, g_image_map, g_memory_map, g_fence_map, g_ext_mem_fd_map, now>>

\* g_instance_map[*pInstance] = instance_map_data, under g_instance_mutex.
CreateInstanceInsert(t) ==
    /\ Busy(t)
    /\ threads[t].pc = "instance_insert"
    /\ g_instance_map' = Put(g_instance_map, threads[t].instance, threads[t].item)
    /\ mutex' = Unlocked(t)
    /\ threads' = [threads EXCEPT ![t] = Idle]
    /\ ret' = Ret("VK_SUCCESS", TRUE)
    /\ UNCHANGED <<layer, hist, g_phys_device_map, g_device_map, g_buffer_map, g_image_map,
                   g_memory_map, g_fence_map, g_ext_mem_fd_map, driver, now>>

\* CreateDevice: the call down succeeds and the record of the physical
\* device is filled in; the memory tracker then goes through DumpMemory, the
\* simulator straight to the lock that guards the insertion.  The new handle
\* is not one that a call still in progress is releasing.
CreateDeviceCall(t, p, d) ==
    /\ threads[t] = Idle
    /\ KnownPhys(p)
    /\ ~Destroying(g_phys_device_map[p].instance)
    /\ Fresh(d, DeviceHandles, DOMAIN driver.devices)
    /\ \A u \in Threads : Busy(u) => threads[u].device # d
    /\ LET phys == g_phys_device_map[p]
           dev == NewDevice(p, g_instance_map[phys.instance], <<>>)
       IN  /\ driver' = [driver EXCEPT !.devices = Put(@, d, p)]
           /\ g_phys_device_map' =
                 [g_phys_device_map EXCEPT ![p] = PhysAfterCreateDevice(p, phys, dev, 0)]
           /\ threads' = [threads EXCEPT ![t] =
                             IF layer = "memory_tracker"
                             THEN AtLock("CreateDevice", phys.instance, p, d, DumpLocks(p),
                                         "dump", dev)
                             ELSE AtLock("CreateDevice", phys.instance, p, d,
                                         <<DeviceMutex(p)>>, "device_insert", dev)]
    /\ UNCHANGED <<layer, mutex, hist, ret, g_instance_map, g_device_map, g_buffer_map,
                   g_image_map, g_memory_map, g_fence_map, g_ext_mem_fd_map, now>>

\* DumpMemory has written its log under both locks and returns; CreateDevice
\* goes on to the lock that guards the insertion.
DumpMemoryLocked(t) ==
    /\ Busy(t)
    /\ threads[t].pc = "dump"
    /\ mutex' = Unlocked(t)
    /\ threads' = [threads EXCEPT ![t] =
                      [@ EXCEPT !.pc = "lock", !.want = <<DeviceMutex(threads[t].phys)>>,
                                !.after = "device_insert"]]
    /\ UNCHANGED <<layer, hist, ret, g_instance_map, g_phys_device_map, g_device_map,
                   g_buffer_map, g_image_map, g_memory_map, g_fence_map, g_ext_mem_fd_map,
                   driver, now>>

\* g_device_map[*pDevice] = device_map_data, under the device_mutex.
CreateDeviceInsert(t) ==
    /\ Busy(t)
    /\ threads[t].pc = "device_insert"
    /\ g_device_map' = Put(g_device_map, threads[t].device, threads[t].item)
    /\ mutex' = Unlocked(t)
    /\ threads' = [threads EXCEPT ![t] = Idle]
    /\ ret' = Ret("VK_SUCCESS", TRUE)
    /\ UNCHANGED <<layer, hist, g_instance_map, g_phys_device_map, g_buffer_map, g_image_map,
                   g_memory_map, g_fence_map, g_ext_mem_fd_map, driver, now>>

\* The part of DestroyDevice before its lock: the call down and the erasure
\* of the external-memory entries of the device.
DestroyDeviceDown(d) ==
    /\ driver' = [driver EXCEPT !.devices = Drop(@, d),
                                !.buffers = Without(@, d), !.images = Without(@, d),
                                !.memories = Without(@, d), !.fences = Without(@, d)]
    /\ g_ext_mem_fd_map' = EraseExternalMemFdMapEntries(d)
    /\ hist' = [f \in (DOMAIN hist) \ OwnedBy(driver.fences, d) |-> hist[f]]

\* DestroyDevice called by the application, on a device no call is using.
DestroyDeviceCall(t, d) ==
    /\ threads[t] = Idle
    /\ LiveDevice(d)
    /\ \A u \in Threads : Busy(u) => threads[u].device # d
    /\ ~Destroying(g_phys_device_map[PhysOf(d)].instance)
    /\ DestroyDeviceDown(d)
    /\ threads' = [threads EXCEPT ![t] =
                      AtLock("DestroyDevice", g_phys_device_map[PhysOf(d)].instance, PhysOf(d), d,
                             <<DeviceMutex(PhysOf(d))>>, "device_erase", VK_NULL_HANDLE)]
    /\ UNCHANGED <<layer, mutex, ret, g_instance_map, g_phys_device_map, g_device_map,
                   g_buffer_map, g_image_map, g_memory_map, g_fence_map, now>>

\* EraseDeviceMapEntry(device) under the device_mutex, and the return of
\* DestroyDevice: to the application, or into the loop of DestroyInstance,
\* whose iterator pointed at the erased element.
DestroyDeviceErase(t) ==
    /\ Busy(t)
    /\ threads[t].pc = "device_erase"
    /\ g_device_map' = EraseDeviceMapEntry(g_device_map, threads[t].device)
    /\ mutex' = Unlocked(t)
    /\ IF threads[t].call = "DestroyInstance"
       THEN /\ threads' = [threads EXCEPT ![t] =
                              [@ EXCEPT !.pc = "loop", !.device = VK_NULL_HANDLE, !.item = TRUE]]
            /\ UNCHANGED ret
       ELSE /\ threads' = [threads EXCEPT ![t] = Idle]
            /\ ret' = Ret("void", TRUE)
    /\ UNCHANGED <<layer, hist, g_instance_map, g_phys_device_map, g_buffer_map, g_image_map,
                   g_memory_map, g_fence_map, g_ext_mem_fd_map, driver, now>>

\* DestroyInstance, on an instance no other call is using, enters its loops.
DestroyInstanceCall(t, i) ==
    /\ threads[t] = Idle
    /\ i \in driver.instances
    /\ i \in DOMAIN g_instance_map
    /\ \A u \in Threads : Busy(u) => threads[u].instance # i
    /\ threads' = [threads EXCEPT ![t] =
                      [pc |-> "loop", call |-> "DestroyInstance", instance |-> i,
                       phys |-> VK_NULL_HANDLE, device |-> VK_NULL_HANDLE, want |-> <<>>,
                       after |-> "loop", item |-> FALSE]]
    /\ UNCHANGED <<layer, mutex, hist, ret, driver, g_instance_map, g_phys_device_map,
                   g_device_map, g_buffer_map, g_image_map, g_memory_map, g_fence_map,
                   g_ext_mem_fd_map, now>>

\* One turn of the loop over g_device_map.  With a valid iterator the loop
\* finds the next device of the instance and calls DestroyDevice, or runs
\* out, erases the physical devices of the instance and goes on to
\* EraseInstanceMapEntry.  After a DestroyDevice the iterator is dangling
\* (item is TRUE): its use goes on as if it were valid, reads the end of the
\* table, or stops the process.
DestroyInstanceStep(t, outcome, next) ==
    /\ Busy(t)
    /\ threads[t].pc = "loop"
    /\ outcome \in (IF threads[t].item THEN {"advance", "end", "fault"} ELSE {"advance"})
    /\ LET i == threads[t].instance
           under == DevicesUnder(g_device_map, g_phys_device_map, i)
       IN  IF outcome = "fault"
           THEN /\ next = VK_NULL_HANDLE
                /\ threads' = [threads EXCEPT ![t] = [@ EXCEPT !.pc = "fault"]]
                /\ UNCHANGED <<driver, g_ext_mem_fd_map, hist, g_phys_device_map>>
           ELSE IF outcome = "advance" /\ under # {}
           THEN /\ next \in under
                /\ DestroyDeviceDown(next)
                /\ threads' = [threads EXCEPT ![t] =
                                  [@ EXCEPT !.pc = "lock", !.phys = PhysOf(next), !.device = next,
                                            !.want = <<DeviceMutex(PhysOf(next))>>,
                                            !.after = "device_erase"]]
                /\ UNCHANGED g_phys_device_map
           ELSE /\ next = VK_NULL_HANDLE
                /\ g_phys_device_map' =
                      [p \in {k \in DOMAIN g_phys_device_map : g_phys_device_map[k].instance # i}
                          |-> g_phys_device_map[p]]
                /\ threads' = [threads EXCEPT ![t] =
                                  [@ EXCEPT !.pc = "lock", !.want = <<g_instance_mutex>>,
                                            !.after = "instance_erase"]]
                /\ UNCHANGED <<driver, g_ext_mem_fd_map, hist>>
    /\ UNCHANGED <<layer, mutex, ret, g_instance_map, g_device_map, g_buffer_map, g_image_map,
                   g_memory_map, g_fence_map, now>>

\* EraseInstanceMapEntry under g_instance_mutex, and the return of
\* DestroyInstance.
EraseInstanceLocked(t) ==
    /\ Busy(t)
    /\ threads[t].pc = "instance_erase"
    /\ g_instance_map' = EraseInstanceMapEntry(g_instance_map, threads[t].instance)
    /\ mutex' = Unlocked(t)
    /\ threads' = [threads EXCEPT ![t] = Idle]
    /\ ret' = Ret("void", FALSE)
    /\ UNCHANGED <<layer, hist, g_phys_device_map, g_device_map, g_buffer_map, g_image_map,
                   g_memory_map, g_fence_map, g_ext_mem_fd_map, driver, now>>

\* CreateBuffer: the call down succeeds, the record is built, and the thread
\* arrives at the memory_mutex of the device.
CreateBufferCall(t, d, b) ==
    /\ threads[t] = Idle
    /\ LiveDevice(d)
    /\ LayerOn(d)
    /\ ~Destroying(g_phys_device_map[PhysOf(d)].instance)
    /\ Fresh(b, BufferHandles, DOMAIN driver.buffers)
    /\ driver' = [driver EXCEPT !.buffers = Put(@, b, d)]
    /\ threads' = [threads EXCEPT ![t] =
                      AtLock("CreateBuffer", g_phys_device_map[PhysOf(d)].instance, PhysOf(d), d,
                             <<MemoryMutex(d)>>, "buffer_insert", b)]
    /\ UNCHANGED <<layer, mutex, hist, ret, g_instance_map, g_phys_device_map, g_device_map,
                   g_buffer_map, g_image_map, g_memory_map, g_fence_map, g_ext_mem_fd_map, now>>

\* g_buffer_map[*pBuffer] = buffer_map_data, under the memory_mutex.
CreateBufferInsert(t) ==
    /\ Busy(t)
    /\ threads[t].pc = "buffer_insert"
    /\ g_buffer_map' = Put(g_buffer_map, threads[t].item, NewBuffer(threads[t].device, <<>>))
    /\ mutex' = Unlocked(t)
    /\ threads' = [threads EXCEPT ![t] = Idle]
    /\ ret' = Ret("VK_SUCCESS", TRUE)
    /\ UNCHANGED <<layer, hist, g_instance_map, g_phys_device_map, g_device_map, g_image_map,
                   g_memory_map, g_fence_map, g_ext_mem_fd_map, driver, now>>

\* CreateFence of the simulator: the call down succeeds, the record is
\* built, and the thread arrives at the fence_mutex of the device.
CreateFenceCall(t, d, f) ==
    /\ threads[t] = Idle
    /\ layer = "simulator"
    /\ LiveDevice(d)
    /\ LayerOn(d)
    /\ ~Destroying(g_phys_device_map[PhysOf(d)].instance)
    /\ Fresh(f, FenceHandles, DOMAIN driver.fences)
    /\ driver' = [driver EXCEPT !.fences = Put(@, f, d)]
    /\ hist' = Put(hist, f, NewHist(FALSE))
    /\ threads' = [threads EXCEPT ![t] =
                      AtLock("CreateFence", g_phys_device_map[PhysOf(d)].instance, PhysOf(d), d,
                             <<FenceMutex(d)>>, "fence_insert", f)]
    /\ UNCHANGED <<layer, mutex, ret, g_instance_map, g_phys_device_map, g_device_map,
                   g_buffer_map, g_image_map, g_memory_map, g_fence_map, g_ext_mem_fd_map, now>>

\* g_fence_map[*pFence] = fence_map_data, under the fence_mutex.
CreateFenceInsert(t) ==
    /\ Busy(t)
    /\ threads[t].pc = "fence_insert"
    /\ g_fence_map' = Put(g_fence_map, threads[t].item, NewFence(threads[t].device, FALSE))
    /\ mutex' = Unlocked(t)
    /\ threads' = [threads EXCEPT ![t] = Idle]
    /\ ret' = Ret("VK_SUCCESS", TRUE)
    /\ UNCHANGED <<layer, hist, g_instance_map, g_phys_device_map, g_device_map, g_buffer_map,
                   g_image_map, g_memory_map, g_ext_mem_fd_map, driver, now>>

\* The steps a thread takes inside a call.
InsideCall(t) ==
    \/ UniqueLock(t)
    \/ CreateInstanceInsert(t)
    \/ DumpMemoryLocked(t)
    \/ CreateDeviceInsert(t)
    \/ DestroyDeviceErase(t)
    \/ \E outcome \in {"advance", "end", "fault"}, next \in DeviceHandles \cup {VK_NULL_HANDLE} :
          DestroyInstanceStep(t, outcome, next)
    \/ EraseInstanceLocked(t)
    \/ CreateBufferInsert(t)
    \/ CreateFenceInsert(t)

NextLock ==
    \/ \E t \in Threads, i \in InstanceHandles : CreateInstanceCall(t, i, 50)
    \/ \E i \in {1} : Quiet /\ EnumeratePhysicalDevices(i, "VK_SUCCESS")
    \/ \E t \in Threads, p \in PhysHandles, d \in DeviceHandles : CreateDeviceCall(t, p, d)
    \/ \E t \in Threads, d \in DeviceHandles : DestroyDeviceCall(t, d)
    \/ \E t \in Threads, i \in InstanceHandles : DestroyInstanceCall(t, i)
    \/ \E t \in Threads, d \in DeviceHandles, b \in BufferHandles : CreateBufferCall(t, d, b)
    \/ \E t \in Threads, d \in DeviceHandles, f \in FenceHandles : CreateFenceCall(t, d, f)
    \/ \E t \in Threads : UniqueLock(t)
    \/ \E t \in Threads : CreateInstanceInsert(t)
    \/ \E t \in Threads : DumpMemoryLocked(t)
    \/ \E t \in Threads : CreateDeviceInsert(t)
    \/ \E t \in Threads : DestroyDeviceErase(t)
    \/ \E t \in Threads, outcome \in {"advance", "end", "fault"},
          next \in DeviceHandles \cup {VK_NULL_HANDLE} : DestroyInstanceStep(t, outcome, next)
    \/ \E t \in Threads : EraseInstanceLocked(t)
    \/ \E t \in Threads : CreateBufferInsert(t)
    \/ \E t \in Threads : CreateFenceInsert(t)

SpecLock == Init /\ [][NextLock]_vars

\* The place of a mutex in the nesting order: the instance lock, the lock of
\* a physical device, the locks of a device.
LockRank(m) ==
    IF m = g_instance_mutex THEN 1
    ELSE IF m \in {DeviceMutex(p) : p \in PhysHandles} THEN 2
    ELSE 3

\* C38: a thread that stands before a lock holds only mutexes that come
\* earlier in the order instance lock, physical-device lock, per-device lock;
\* and as long as the process runs and some thread is inside a call, some
\* thread inside a call can take its next step: the calls never wait for
\* each other in a circle.
C38_LockOrderNoDeadlock ==
    /\ \A t \in Threads :
          (Busy(t) /\ threads[t].pc = "lock")
          => \A m \in Held(t) : LockRank(m) < LockRank(Head(threads[t].want))
    /\ ((\E t \in Threads : Busy(t)) /\ (\A t \in Threads : Busy(t) => threads[t].pc # "fault"))
          => ENABLED (\E t \in Threads : InsideCall(t))

\* A thread inside DumpMemory holds the instance lock and waits for the lock
\* of the physical device, which the other thread holds inside CreateDevice.
C38_Witness ==
    \E t, u \in Threads :
        /\ Busy(t) /\ Busy(u)
        /\ threads[t].pc = "lock"
        /\ Held(t) = {g_instance_mutex}
        /\ Head(threads[t].want) = DeviceMutex(1)
        /\ threads[u].pc = "device_insert"
        /\ mutex[DeviceMutex(1)] = u

(***************************************************************************)
(* Calls of the simulator with a handle that has no record.  The lookups   *)
(* g_fence_map[fence] and g_memory_map[memory] are subscripts of a         *)
(* std::unordered_map: for a key that is absent they insert the key with a *)
(* null pointer and return that.                                           *)
(***************************************************************************)
\* The entries a subscript leaves behind for a handle without a record: a
\* null pointer, written as a record of no device.
NullFence ==
    [device |-> VK_NULL_HANDLE, signalled |-> FALSE, delay_type |-> "FENCE_DELAY_NONE",
     delay_count |-> 0, wait_started |-> FALSE, wait_completed |-> FALSE,
     elapsed_count |-> 0, start_time |-> 0]
NullMemory ==
    [device |-> VK_NULL_HANDLE, allocationSize |-> 0, memoryTypeIndex |-> 0,
     buffers |-> <<>>, images |-> <<>>]

\* A fence handle that was never created or is already destroyed.
MissingFence(d, f) ==
    /\ LiveDevice(d)
    /\ LayerOn(d)
    /\ f \notin DOMAIN g_fence_map
    /\ f \notin DOMAIN driver.fences

\* ResetFences: g_fence_map[pFences[ii]] inserts the key, the null entry is
\* skipped, and the call goes down the chain.
ResetFencesMissing(d, f, res) ==
    /\ MissingFence(d, f)
    /\ g_fence_map' = Put(g_fence_map, f, NullFence)
    /\ ret' = [Ret(res, TRUE) EXCEPT !.fwd = <<f>>]
    /\ UNCHANGED <<layer, threads, mutex, hist, g_instance_map, g_phys_device_map, g_device_map,
                   g_buffer_map, g_image_map, g_memory_map, g_ext_mem_fd_map, driver, now>>

\* GetFenceStatus: g_fence_map[fence] inserts the key, the null entry takes
\* no part in the accounting, and the answer is the one of the chain.
GetFenceStatusMissing(d, f, res) ==
    /\ MissingFence(d, f)
    /\ g_fence_map' = Put(g_fence_map, f, NullFence)
    /\ ret' = Ret(res, TRUE)
    /\ UNCHANGED <<layer, threads, mutex, hist, g_instance_map, g_phys_device_map, g_device_map,
                   g_buffer_map, g_image_map, g_memory_map, g_ext_mem_fd_map, driver, now>>

\* WaitForFences: g_fence_map[pFences[ii]] inserts the key, the fence goes
\* to the list that is waited for down the chain.
WaitForFencesMissing(d, f, waitAll, res) ==
    /\ MissingFence(d, f)
    /\ g_fence_map' = Put(g_fence_map, f, NullFence)
    /\ ret' = [Ret(res, TRUE) EXCEPT !.all = waitAll, !.fwd = <<f>>]
    /\ UNCHANGED <<layer, threads, mutex, hist, g_instance_map, g_phys_device_map, g_device_map,
                   g_buffer_map, g_image_map, g_memory_map, g_ext_mem_fd_map, driver, now>>

\* QueueSubmit with a fence: after the call down succeeded, g_fence_map[fence]
\* inserts the key and the null entry is not signalled.
QueueSubmitMissing(d, f, res) ==
    /\ MissingFence(d, f)
    /\ f # VK_NULL_HANDLE
    /\ g_fence_map' = IF res = "VK_SUCCESS" THEN Put(g_fence_map, f, NullFence) ELSE g_fence_map
    /\ ret' = Ret(res, TRUE)
    /\ UNCHANGED <<layer, threads, mutex, hist, g_instance_map, g_phys_device_map, g_device_map,
                   g_buffer_map, g_image_map, g_memory_map, g_ext_mem_fd_map, driver, now>>

\* FreeMemory with a handle that has no record, the null handle among them.
\* Below 100 percent g_memory_map[memory] inserts the key and the code reads
\* alloc_info through the null pointer: the process stops, or the read
\* yields some memory type and size, which is taken off a counter.
\* EraseMemoryMapEntry then finds the null entry and leaves it.
FreeMemoryMissing(d, m, outcome, type, size) ==
    /\ LiveDevice(d)
    /\ LayerOn(d)
    /\ m \notin DOMAIN g_memory_map
    /\ m \notin DOMAIN driver.memories
    /\ IF g_phys_device_map[PhysOf(d)].memory_percent < 100
       THEN /\ outcome \in {"fault", "garbage"}
            /\ g_memory_map' = Put(g_memory_map, m, NullMemory)
            /\ IF outcome = "fault"
               THEN /\ type = 0 /\ size = 0
                    /\ ret' = Walking("FreeMemory", m, <<>>, "fault")
                    /\ UNCHANGED g_phys_device_map
               ELSE /\ AllocatedOf(d, type) - size >= 0 - MaxWrap
                    /\ g_phys_device_map' =
                          AddAllocated(g_phys_device_map, PhysOf(d), type, 0 - size)
                    /\ ret' = Ret("void", TRUE)
       ELSE /\ outcome = "skipped" /\ type = 0 /\ size = 0
            /\ ret' = Ret("void", TRUE)
            /\ UNCHANGED <<g_memory_map, g_phys_device_map>>
    /\ UNCHANGED <<layer, threads, mutex, hist, g_instance_map, g_device_map, g_buffer_map,
                   g_image_map, g_fence_map, g_ext_mem_fd_map, driver, now>>

\* The handles of missing objects that the calls are given.
MissingHandles == {VK_NULL_HANDLE, 1, 2}

NextMissing ==
    \/ \E percent \in {50, 100} :
          Returned /\ CreateInstance(1, "FENCE_DELAY_NUM_FAIL_WAITS", 3, percent, 1, {}, "VK_SUCCESS")
    \/ Returned /\ EnumeratePhysicalDevices(1, "VK_SUCCESS")
    \/ Returned /\ CreateDevice(1, 1, <<>>, 0, "VK_SUCCESS")
    \/ \E f \in FenceHandles : Returned /\ CreateFence(1, f, FALSE, "VK_SUCCESS")
    \/ \E f \in FenceHandles : Returned /\ DestroyFence(1, f)
    \/ \E m \in MemoryHandles : Returned /\ AllocateMemory(1, m, 200, 0, "VK_SUCCESS")
    \/ \E m \in MemoryHandles : Returned /\ FreeMemory(1, m)
    \/ \E f \in FenceHandles, res \in FenceResults : Returned /\ ResetFencesMissing(1, f, res)
    \/ \E f \in FenceHandles, res \in FenceResults : Returned /\ GetFenceStatusMissing(1, f, res)
    \/ \E f \in FenceHandles, waitAll \in BOOLEAN, res \in FenceResults :
          Returned /\ WaitForFencesMissing(1, f, waitAll, res)
    \/ \E f \in FenceHandles, res \in FenceResults : Returned /\ QueueSubmitMissing(1, f, res)
    \/ \E m \in MissingHandles, outcome \in {"fault", "garbage", "skipped"},
          type \in TypeIndexes, size \in {0, 200} :
          Returned /\ FreeMemoryMissing(1, m, outcome, type, size)

SpecMissing == InitSimulator /\ [][NextMissing]_vars

\* The sum of the allocated counters of the heaps of every physical device.
AllocatedCounters(pm) ==
    [p \in DOMAIN pm |->
        [h \in DOMAIN pm[p].memory_props.memoryHeaps |-> pm[p].memory_props.memoryHeaps[h].allocated]]

\* C39: no registry holds a key whose record is null and no call reads
\* through a missing record; a call of ResetFences, GetFenceStatus,
\* WaitForFences, QueueSubmit or FreeMemory with a handle that has no record
\* leaves the keys of every registry and every allocated counter as they
\* were.
C39_NoNullRecords ==
    /\ [](/\ \A f \in DOMAIN g_fence_map : g_fence_map[f] # NullFence
          /\ \A m \in DOMAIN g_memory_map : g_memory_map[m] # NullMemory
          /\ ret.result # "fault")
    /\ [][(\/ \E f \in FenceHandles, res \in FenceResults :
                 \/ ResetFencesMissing(1, f, res)
                 \/ GetFenceStatusMissing(1, f, res)
                 \/ QueueSubmitMissing(1, f, res)
                 \/ \E waitAll \in BOOLEAN : WaitForFencesMissing(1, f, waitAll, res)
           \/ \E m \in MissingHandles, outcome \in {"fault", "garbage", "skipped"},
                 type \in TypeIndexes, size \in {0, 200} :
                 FreeMemoryMissing(1, m, outcome, type, size))
          => /\ DOMAIN g_fence_map' = DOMAIN g_fence_map
             /\ DOMAIN g_memory_map' = DOMAIN g_memory_map
             /\ AllocatedCounters(g_phys_device_map') = AllocatedCounters(g_phys_device_map)]_vars

(***************************************************************************)
(* Two instances of the simulator with settings of their own, enumerating  *)
(* the same physical device.                                               *)
(***************************************************************************)
NextShared ==
    \/ \E i \in InstanceHandles, percent \in {50, 100} :
          CreateInstance(i, "FENCE_DELAY_NONE", 0, percent, 1, {}, "VK_SUCCESS")
    \/ \E i \in InstanceHandles : EnumeratePhysicalDevices(i, "VK_SUCCESS")
    \/ \E p \in PhysHandles : GetPhysicalDeviceMemoryProperties(p)
    \/ \E p \in PhysHandles, d \in DeviceHandles : CreateDevice(p, d, <<>>, 0, "VK_SUCCESS")
    \/ \E d \in DeviceHandles, m \in MemoryHandles, size \in AllocSizes :
          AllocateMemory(d, m, size, 0, "VK_SUCCESS")
    \/ \E d \in DeviceHandles, m \in MemoryHandles : FreeMemory(d, m)
    \/ \E d \in DeviceHandles : DestroyDevice(d)
    \/ \E i \in InstanceHandles : DestroyInstance(i)

SpecShared == InitSimulator /\ [][NextShared]_vars

\* C40: the record of a physical device carries the layer_enabled and the
\* memory_percent of the instance its instance field names, whichever
\* instance enumerated it last.
C40_PhysSettingsFollowInstance ==
    \A p \in DOMAIN g_phys_device_map :
        LET phys == g_phys_device_map[p]
        IN  phys.instance \in DOMAIN g_instance_map
            => /\ phys.layer_enabled = g_instance_map[phys.instance].layer_enabled
               /\ phys.memory_percent = g_instance_map[phys.instance].memory_percent

====
